---------------------------- MODULE Spec2Model ----------------------------
(***************************************************************************)
(* The variability engine of sims_catUtils                                 *)
(* (python/lsst/sims/catUtils/mixins/VariabilityMixin.py): the dispatch    *)
(* orchestrator Variability.applyVariability with its method registry and  *)
(* parameter demultiplexer, the AGN damped-random-walk evaluator applyAgn  *)
(* with the process-wide cache _AGN_LC_CACHE, reset_agn_lc_cache, and the   *)
(* periodic evaluators applyRRly, applyCepheid and applyEb built on        *)
(* applyStdPeriodic with the light-curve cache of the instance; the         *)
(* evaluators applyMicrolens, applyAmcvn and applyBHMicrolens; and          *)
(* applyMLTflaring with its archive and its two process-wide caches.       *)
(*                                                                         *)
(* Specifications.  Spec has callers of applyVariability,                  *)
(* reset_agn_lc_cache and initializeVariability; SpecEval has callers of   *)
(* the single evaluators; SpecMLT follows applyMLTflaring through its      *)
(* while loop, pass by pass.                                               *)
(*                                                                         *)
(* Numbers.  MJDs and model parameters are drawn from small sets of        *)
(* integers; every quantity the AGN evaluator computes from them in        *)
(* floating point is computed here exactly, as a rational                  *)
(* <<numerator, denominator>>.  The phase of a periodic light curve is     *)
(* computed in a binary floating point of FloatBits mantissa bits, rounded *)
(* half to even, because its range depends on the rounding.                *)
(* numpy.random.RandomState is a deterministic generator: a state, a       *)
(* seeding function and a draw that advances the state.                    *)
(***************************************************************************)
EXTENDS Integers, Sequences, FiniteSets, TLC

(***************************************************************************)
(* Bounds of the model.                                                    *)
(***************************************************************************)
\* Largest number of parameter blobs in one varParams_arr.
MaxBatch == 2

\* Largest MJD a caller asks for.
MaxMjd == 3

\* Stands for the 1000000 of VariabilityMixin.py line 935, scaled down so
\* that the overflow of _AGN_LC_CACHE is reached: the code compares
\* len(_AGN_LC_CACHE) with it and does nothing else with the number.
AgnCacheLimit == 1

(***************************************************************************)
(* Exact arithmetic on rationals <<n, d>>, d > 0, in lowest terms.         *)
(***************************************************************************)
Abs(i) == IF i < 0 THEN -i ELSE i

RECURSIVE Gcd(_, _)
Gcd(a, b) == IF b = 0 THEN a ELSE Gcd(b, a % b)

RNorm(n, d) ==
    LET s == IF d < 0 THEN -1 ELSE 1
        g == Gcd(Abs(n), Abs(d))
    IN  <<(s * n) \div g, (s * d) \div g>>

R(i) == <<i, 1>>

RZero == R(0)

RAdd(a, b) ==
    IF a[2] = b[2] THEN
        IF a[2] = 1 THEN <<a[1] + b[1], 1>> ELSE RNorm(a[1] + b[1], a[2])
    ELSE LET g == Gcd(a[2], b[2])
             l == (a[2] \div g) * b[2]
         IN  RNorm(a[1] * (l \div a[2]) + b[1] * (l \div b[2]), l)

RNeg(a) == <<-a[1], a[2]>>

RSub(a, b) == RAdd(a, RNeg(b))

\* the factors are in lowest terms, and so is the product after the
\* cross-cancellation
RMul(a, b) ==
    IF a[1] = 0 \/ b[1] = 0 THEN RZero
    ELSE IF a[2] = 1 /\ b[2] = 1 THEN <<a[1] * b[1], 1>>
    ELSE LET g1 == Gcd(Abs(a[1]), b[2])
             g2 == Gcd(Abs(b[1]), a[2])
         IN  <<(a[1] \div g1) * (b[1] \div g2), (a[2] \div g2) * (b[2] \div g1)>>

\* a / b for b # 0
RDiv(a, b) == RMul(a, RNorm(b[2], b[1]))

RLess(a, b) == a[1] * b[2] < b[1] * a[2]

\* math.ceil: the least integer >= a
RCeil(a) == -((-a[1]) \div a[2])

(***************************************************************************)
(* Values and arrays.                                                      *)
(***************************************************************************)
\* float('nan'): what astype(float) makes of None
NaN == <<0, 0>>

\* a local variable that no assignment has bound yet
Unbound == <<1, 0>>

\* Python's None in a parameter list is an empty slot <<>>, a value v the
\* slot <<v>>.
None == <<>>

\* the six LSST bands in ugrizy order, the first axis of every array
Bands == <<"u", "g", "r", "i", "z", "y">>

NBands == 6

\* The index tuples of an array of the given shape (indices from 1).
RECURSIVE Indices(_)
Indices(shape) ==
    IF shape = <<>> THEN {<<>>}
    ELSE {<<i>> \o rest : i \in 1..Head(shape), rest \in Indices(Tail(shape))}

\* numpy.zeros(shape)
Zeros(shape) == [shape |-> shape, data |-> [x \in Indices(shape) |-> RZero]]

\* numpy.array([[],[],[],[],[],[]]), of shape (6, 0)
Empty6 == Zeros(<<NBands, 0>>)

\* what a call that raised hands back: nothing
NoArray == [shape |-> <<>>, data |-> <<>>]

\* expmjd: None, a number, or a sequence of numbers
NoTime == [k |-> "none", v |-> <<>>]
Scalar(t) == [k |-> "scalar", v |-> <<t>>]
Vector(ts) == [k |-> "vector", v |-> ts]

\* isinstance(expmjd, numbers.Number)
IsNumber(expmjd) == expmjd.k = "scalar"

\* Variability.num_variable_obj: the length of the first parameter list
num_variable_obj(params) ==
    IF DOMAIN params = {} THEN 0
    ELSE Len(params[CHOOSE p \in DOMAIN params : TRUE])

(***************************************************************************)
(* numpy.random.RandomState: seeding, and one standard-normal draw, which  *)
(* is a function of the state and advances it.                             *)
(***************************************************************************)
RandomState(seed) == seed % 8

RngAdvance(s) == (5 * s + 3) % 8

RngNormal(s) == R((s % 3) - 1)

\* rng.normal(0., 1., n): the n draws, and the state they leave
RECURSIVE Normals(_, _)
Normals(s, n) ==
    IF n = 0 THEN [es |-> <<>>, rng |-> s]
    ELSE LET rest == Normals(RngAdvance(s), n - 1)
         IN  [es |-> <<RngNormal(s)>> \o rest.es, rng |-> rest.rng]

(***************************************************************************)
(* _AGN_LC_CACHE and reset_agn_lc_cache.                                   *)
(***************************************************************************)
EmptyCache == [x \in {} |-> 0]

\* astype(float) of one slot of a parameter list
AsFloat(slot) == IF slot = None THEN NaN ELSE R(slot[1])

\* The object at position ix of the parameter lists, as applyAgn reads it.
AgnObject(params, ix) ==
    [seed |-> params["seed"][ix],
     toff |-> AsFloat(params["t0_mjd"][ix]),
     tau  |-> AsFloat(params["agn_tau"][ix]),
     sf   |-> <<AsFloat(params["agn_sfu"][ix]), AsFloat(params["agn_sfg"][ix]),
                AsFloat(params["agn_sfr"][ix]), AsFloat(params["agn_sfi"][ix]),
                AsFloat(params["agn_sfz"][ix]), AsFloat(params["agn_sfy"][ix])>>]

\* agn_ID: '%d_%.12f_..._%.12f' of the seed, the six structure functions,
\* tau and toff.  The parameters of the model are integers, which the
\* format prints exactly, so the string is taken as the tuple it prints.
AgnId(o) == <<o.seed[1]>> \o [k \in 1..NBands |-> o.sf[k][1]] \o <<o.tau[1], o.toff[1]>>

\* math.sqrt of a rational whose numerator and denominator are squares
MathSqrt(a) ==
    <<CHOOSE k \in 0..a[1] : k * k = a[1], CHOOSE k \in 1..a[2] : k * k = a[2]>>

\* One pass of the inner loop "for i in range(nbins)" for one band, from
\* bin i on: dx1 = dx2; dx2 = -dx1*dt + sfint[k]*es[i] + dx1.
RECURSIVE Walk(_, _, _, _, _, _)
Walk(dx1, dx2, sf, es, dt, i) ==
    IF i > Len(es) THEN <<dx1, dx2>>
    ELSE Walk(dx2, RAdd(RAdd(RNeg(RMul(dx2, dt)), RMul(sf, es[i])), dx2),
              sf, es, dt, i + 1)

\* dm_val = (endepoch*(dx1-dx2)+dx2*x1-dx1*x2)/(x1-x2)
DmVal(endepoch, dx1, dx2, x1, x2) ==
    RDiv(RSub(RAdd(RMul(endepoch, RSub(dx1, dx2)), RMul(dx2, x1)), RMul(dx1, x2)),
         RSub(x1, x2))

\* The one element of a singleton.  Only({f(x) : x \in {e}}) is f(e), with
\* e evaluated once: this is how the value of a call is given a name.
Only(S) == CHOOSE x \in S : TRUE

\* The loop over the six bands of one object at one time.  dx1 is the
\* function's local variable: it keeps the value the last executed inner
\* loop left, and is unbound until an inner loop has run.  The result is
\* the exception raised ("" for none), dx1, dx_cached and the six dm_val.
RECURSIVE BandLoop(_, _, _, _, _, _, _, _, _)
BandLoop(ik, dx1, dx_0, sf, es, dt, endepoch, x1, x2) ==
    IF ik > NBands THEN [exc |-> "", dx1 |-> dx1, dx |-> <<>>, dm |-> <<>>]
    ELSE Only({
        IF w[1] = Unbound
        THEN [exc |-> "UnboundLocalError", dx1 |-> dx1, dx |-> <<>>, dm |-> <<>>]
        ELSE Only({
            [exc |-> rest.exc, dx1 |-> rest.dx1,
             dx  |-> <<w[2]>> \o rest.dx,
             dm  |-> <<DmVal(endepoch, w[1], w[2], x1, x2)>> \o rest.dm] :
            rest \in {BandLoop(ik + 1, w[1], dx_0, sf, es, dt, endepoch, x1, x2)} }) :
        w \in {Walk(dx1, dx_0[ik], sf[ik], es, dt, 1)} })

\* The names applyAgn reads from params (lines 846-854), in that order.
AgnParamNames ==
    <<"t0_mjd", "seed", "agn_tau", "agn_sfu", "agn_sfg", "agn_sfr",
      "agn_sfi", "agn_sfz", "agn_sfy">>

\* A cache that would drop one entry, not all, when it is over the limit.
AgnCacheStoreEvicting(cache, id, entry) ==
    LET gone == IF Cardinality(DOMAIN cache) > AgnCacheLimit
                THEN {CHOOSE x \in DOMAIN cache : x # id} ELSE {}
    IN  [x \in (DOMAIN cache \ gone) \cup {id} |-> IF x = id THEN entry ELSE cache[x]]

\* A store that would leave alone an entry whose time is later than the new
\* one.
AgnCacheStoreForwardOnly(cache, id, entry) ==
    LET kept == IF Cardinality(DOMAIN cache) > AgnCacheLimit THEN EmptyCache ELSE cache
    IN  [x \in DOMAIN kept \cup {id} |->
            IF x # id THEN kept[x]
            ELSE IF id \in DOMAIN kept /\ RLess(entry.mjd, kept[id].mjd)
                 THEN kept[id] ELSE entry]

\* The cache after the body of applyAgn's loop stored the entry of agn_ID:
\* a reset when the cache holds more than the limit, then the insertion.
AgnCacheStore(cache, id, entry) ==
    LET kept == IF Cardinality(DOMAIN cache) > AgnCacheLimit THEN EmptyCache ELSE cache
    IN  [x \in DOMAIN kept \cup {id} |-> IF x = id THEN entry ELSE kept[x]]

\* A cache entry that would record the requested time.
AgnCachedMjdRequested(start_date, x2, expmjd_val) == R(expmjd_val)

\* The time the cache entry records: the end of the last simulated bin.
AgnCachedMjd(start_date, x2, expmjd_val) == RAdd(start_date, x2)

\* A resumption that would not compare the cached time with the request.
AgnResumptionOnHit(cache, id, expmjd_val) == id \in DOMAIN cache

\* Whether the walk resumes from the cache entry of agn_ID (lines 884-886).
AgnResumption(cache, id, expmjd_val) ==
    id \in DOMAIN cache /\ RLess(cache[id].mjd, R(expmjd_val))

\* A resumption that would work on the cached generator itself.
CopyRngShared(cache, id) == [shared |-> TRUE, state |-> cache[id].rng]

\* Line 889, rng = copy.deepcopy(_AGN_LC_CACHE[agn_ID]['rng']): the local
\* name rng refers to a generator of its own, in the state of the cached one.
\* shared tells whether rng is the very object the cache entry holds.
CopyRng(cache, id) == [shared |-> FALSE, state |-> cache[id].rng]

\* Line 894, rng = numpy.random.RandomState(seed): a new generator.
NewRng(seed) == [shared |-> FALSE, state |-> RandomState(seed)]

\* Line 914, rng.normal(...) advances the generator rng refers to: the cache
\* as it is once the draws have left that generator in state.
AfterDraws(cache, id, rng, state) ==
    IF rng.shared THEN [cache EXCEPT ![id].rng = state] ELSE cache

\* An error path that would take the entry of the identity out of the cache.
AgnRaiseDropping(st, cache, exc, record) ==
    [st EXCEPT !.exc = exc, !.log = Append(@, record),
               !.cache = [x \in DOMAIN cache \ {record.id} |-> cache[x]]]

\* The body raises exc: the loops end, and dMags is not returned.
AgnRaise(st, cache, exc, record) ==
    [st EXCEPT !.exc = exc, !.log = Append(@, record), !.cache = cache]

\* The body of applyAgn's double loop for the object at ix and the time
\* expmjd_val (the i_time-th of expmjd_arr).  st holds _AGN_LC_CACHE, the
\* function's dMags and dx1, the exception raised so far ("" for none) and
\* a log with one record per executed body.
AgnBody(st, params, ix, expmjd, i_time) ==
    LET expmjd_val == expmjd.v[i_time]
        o          == AgnObject(params, ix)
        id         == AgnId(o)
        hit        == id \in DOMAIN st.cache
        resumption == AgnResumption(st.cache, id, expmjd_val)
        start_date == IF resumption THEN st.cache[id].mjd ELSE o.toff
        rng        == IF resumption THEN CopyRng(st.cache, id) ELSE NewRng(o.seed[1])
        dx_0       == IF resumption THEN st.cache[id].dx ELSE [k \in 1..NBands |-> RZero]
        endepoch   == RSub(R(expmjd_val), start_date)
        dt         == RDiv(o.tau, R(100))
        nbins      == RCeil(RDiv(endepoch, dt))
        x1         == RMul(R(nbins - 1), dt)
        x2         == RMul(R(nbins), dt)
        dtt        == RDiv(dt, o.tau)
        drawn      == Normals(rng.state, nbins)
        cacheD     == AfterDraws(st.cache, id, rng, drawn.rng)
        es         == [i \in 1..nbins |-> RMul(drawn.es[i], MathSqrt(dtt))]
        bl         == BandLoop(1, st.dx1, dx_0, o.sf, es, dtt, endepoch, x1, x2)
        entry      == [mjd |-> AgnCachedMjd(start_date, x2, expmjd_val),
                       rng |-> drawn.rng, dx |-> bl.dx]
        cache2     == AgnCacheStore(cacheD, id, entry)
        rec(exc, drawnCache, c, dm, nb) ==
            [id |-> id, t |-> expmjd_val, ix |-> ix, hit |-> hit,
             L |-> IF hit THEN st.cache[id].mjd ELSE RZero,
             resumed |-> resumption, start |-> start_date, nbins |-> nb,
             rng0 |-> rng.state, dx_0 |-> dx_0,
             keysBefore |-> DOMAIN st.cache, keysAfter |-> DOMAIN c,
             before |-> st.cache, drawnCache |-> drawnCache, after |-> c,
             exc |-> exc, dm |-> dm]
    IN  IF st.exc # "" THEN st
        ELSE IF params["seed"][ix] = None THEN
            \* '%d' % None, in the format of agn_ID
            [st EXCEPT !.exc = "TypeError"]
        ELSE IF RLess(endepoch, RZero) THEN
            \* line 901, before any draw; the message formats expmjd with
            \* %e, which a sequence is not
            Only({ AgnRaise(st, st.cache, exc,
                            rec(exc, st.cache, st.cache, <<>>, 0)) :
                   exc \in {IF IsNumber(expmjd) THEN "RuntimeError" ELSE "TypeError"} })
        ELSE IF bl.exc # ""
        THEN AgnRaise(st, cacheD, bl.exc, rec(bl.exc, cacheD, cacheD, <<>>, 0))
        ELSE [cache |-> cache2,
              dMags |-> [st.dMags EXCEPT !.data =
                           [x \in DOMAIN @ |->
                              IF x[2] = ix /\ (IsNumber(expmjd) \/ x[3] = i_time)
                              THEN bl.dm[x[1]] ELSE @[x]]],
              dx1   |-> bl.dx1,
              exc   |-> "",
              log   |-> Append(st.log, rec("", cacheD, cache2, bl.dm, nbins))]

\* "for i_time ...: for ix in valid_dexes[0]:", from the ix at position j
\* of valid_dexes at time i_time on.
RECURSIVE AgnLoop(_, _, _, _, _, _)
AgnLoop(st, valid_dexes, params, expmjd, i_time, j) ==
    IF i_time > Len(expmjd.v) THEN st
    ELSE IF j > Len(valid_dexes)
         THEN AgnLoop(st, valid_dexes, params, expmjd, i_time + 1, 1)
         ELSE Only({ AgnLoop(s2, valid_dexes, params, expmjd, i_time, j + 1) :
                     s2 \in {AgnBody(st, params, valid_dexes[j], expmjd, i_time)} })

\* ExtraGalacticVariabilityModels.applyAgn, called on the cache `cache`:
\* the exception it raises ("" for none), the array it returns, the cache
\* it leaves, the log of its loop and the catalog columns it asks for.
applyAgn(cache, valid_dexes, params, expmjd) ==
    IF DOMAIN params = {}
    THEN [exc |-> "", ret |-> Empty6, cache |-> cache, log |-> <<>>, columns |-> <<>>]
    ELSE IF \E i \in 1..Len(AgnParamNames) : AgnParamNames[i] \notin DOMAIN params
    THEN [exc |-> "KeyError", ret |-> NoArray, cache |-> cache, log |-> <<>>,
          columns |-> <<>>]
    ELSE Only({
        [exc |-> st.exc,
         ret |-> IF st.exc = "" THEN st.dMags ELSE NoArray,
         cache |-> st.cache, log |-> st.log, columns |-> <<>>] :
        st \in {AgnLoop([cache |-> cache,
                         dMags |-> IF IsNumber(expmjd)
                                   THEN Zeros(<<NBands, num_variable_obj(params)>>)
                                   ELSE Zeros(<<NBands, num_variable_obj(params),
                                                Len(expmjd.v)>>),
                         dx1 |-> Unbound, exc |-> "", log |-> <<>>],
                        valid_dexes, params, expmjd, 1, 1)} })

\* A reset that would leave an entry behind: a process of seed 3 and t0 0,
\* simulated to time 1.
ResetLeavingEntry ==
    <<3, 1, 2, 3, 1, 2, 3, 200, 0>> :>
        [mjd |-> R(1), rng |-> RandomState(4), dx |-> [k \in 1..NBands |-> R(1)]]

\* Lines 97-104, reset_agn_lc_cache: _AGN_LC_CACHE = {}.
reset_agn_lc_cache == EmptyCache

(***************************************************************************)
(* The classes and their registered methods.                               *)
(***************************************************************************)
\* The registered methods of each catalog class, <<method, _registryKey>>,
\* in the order dir(self) lists them (sorted by method name).
ClassMethods(class) ==
    IF class = "VariabilityAGN"
    THEN << <<"applyAgn", "applyAgn">> >>
    ELSE << <<"applyAmcvn", "applyAmcvn">>,
            <<"applyBHMicrolens", "applyBHMicrolens">>,
            <<"applyCepheid", "applyCepheid">>,
            <<"applyEb", "applyEb">>,
            <<"applyMLTflaring", "MLT">>,
            <<"applyMicrolens", "applyMicrolens">>,
            <<"applyMicrolensing", "applyMicrolensing">>,
            <<"applyRRly", "applyRRly">> >>

Classes == {"VariabilityAGN", "VariabilityStars"}

\* The scan of applyVariability lines 177-182 over the first n methods:
\* a key is registered once, for the first method that carries it.
RECURSIVE BuildRegistry(_, _)
BuildRegistry(methods, n) ==
    IF n = 0 THEN [k \in {} |-> ""]
    ELSE LET reg == BuildRegistry(methods, n - 1)
             m   == methods[n]
         IN  IF m[2] \in DOMAIN reg THEN reg
             ELSE [k \in DOMAIN reg \cup {m[2]} |-> IF k = m[2] THEN m[1] ELSE reg[k]]

\* The keys of a registry in the order the dict iterates them (insertion).
RegistryKeys(class, reg) ==
    LET ms == ClassMethods(class)
    IN  SelectSeq([i \in 1..Len(ms) |-> ms[i][2]], LAMBDA k : k \in DOMAIN reg)

\* The mean epoch of the catalog's ObservationMetaData,
\* self.obs_metadata.mjd.TAI, which stands in for an expmjd of None.
ObsMjd == 2

(***************************************************************************)
(* Floating point, for the phase of applyStdPeriodic.  A float is a        *)
(* rational with a mantissa of FloatBits bits, or NaN; every operation     *)
(* rounds its exact result to the nearest float, ties to the even          *)
(* mantissa.  The exponent is not bounded: the numbers of the model come   *)
(* nowhere near overflow or underflow.                                     *)
(***************************************************************************)
\* Stands for the 53 bits of the mantissa of a double, scaled down so that
\* the rationals stay small.
FloatBits == 4

RECURSIVE Pow2(_)
Pow2(k) == IF k = 0 THEN 1 ELSE 2 * Pow2(k - 1)

\* The integer nearest to n/d (n >= 0, d > 0), a tie going to the even one.
RoundHalfEven(n, d) ==
    LET f == n \div d
        r == n % d
    IN  IF 2 * r > d THEN f + 1
        ELSE IF 2 * r < d THEN f
        ELSE f + (f % 2)

\* n/d * 2^e for n/d > 0, rounded: n/d is brought into
\* [2^(FloatBits-1), 2^FloatBits), where the floats are the integers.
RECURSIVE FlScale(_, _, _)
FlScale(n, d, e) ==
    IF n >= Pow2(FloatBits) * d THEN FlScale(n, 2 * d, e + 1)
    ELSE IF n < Pow2(FloatBits - 1) * d THEN FlScale(2 * n, d, e - 1)
    ELSE IF e >= 0 THEN <<RoundHalfEven(n, d) * Pow2(e), 1>>
    ELSE RNorm(RoundHalfEven(n, d), Pow2(-e))

\* The float nearest to the rational q.
Fl(q) ==
    IF q = NaN THEN NaN
    ELSE IF q[1] = 0 THEN RZero
    ELSE Only({ IF q[1] < 0 THEN RNeg(r) ELSE r :
                r \in {FlScale(Abs(q[1]), q[2], 0)} })

FSub(a, b) == IF a = NaN \/ b = NaN THEN NaN ELSE Fl(RSub(a, b))

FAdd(a, b) == IF a = NaN \/ b = NaN THEN NaN ELSE Fl(RAdd(a, b))

\* a / b, for a divisor that is not zero
FDiv(a, b) ==
    CASE a = NaN \/ b = NaN -> NaN
      [] b[1] # 0 -> Fl(RDiv(a, b))

\* math.floor
RFloor(a) == a[1] \div a[2]

\* C's fmod(a, b) for b # 0: a - trunc(a/b)*b, exact, with the sign of a.
Fmod(a, b) ==
    LET q == RDiv(<<Abs(a[1]), a[2]>>, <<Abs(b[1]), b[2]>>)
        m == RSub(<<Abs(a[1]), a[2]>>, RMul(R(RFloor(q)), <<Abs(b[1]), b[2]>>))
    IN  IF a[1] < 0 THEN RNeg(m) ELSE m

\* numpy's floor_divide of two floats ("epoch//period"), as numpy computes it
\* since 1.11: from fmod, div = (a - mod)/b, less 1 when mod and b differ in
\* sign, then floor(div), plus 1 when div - floor(div) > 0.5.
FloorDivide(a, b) ==
    CASE a = NaN \/ b = NaN -> NaN
      [] b[1] # 0 ->
           Only({ IF div[1] = 0 THEN RZero
                  ELSE IF RLess(<<1, 2>>, RSub(div, R(RFloor(div))))
                  THEN R(RFloor(div) + 1) ELSE R(RFloor(div)) :
                  div \in { IF mod[1] # 0 /\ ((b[1] < 0) # (mod[1] < 0))
                            THEN FSub(FDiv(FSub(a, mod), b), R(1))
                            ELSE FDiv(FSub(a, mod), b) :
                            mod \in {Fmod(a, b)} } })

(***************************************************************************)
(* The light curves of self.variabilityDataDir and their interpolants.     *)
(***************************************************************************)
\* The files numpy.loadtxt(..., unpack=True) reads: lc[0], the time grid,
\* and lc[1..6], the six bands on the grid.
\*   rrly.dat: a grid in days over a period of 4 days, band k rising as k*t;
\*   eb.dat:   a grid in phase; the flux ratio of u is 1, 10, -1 and 1/10 on
\*             the grid, that of g is 1, 0, 1 and 1, and that of the other
\*             bands 1 throughout.
LightCurves ==
    [f \in {"rrly.dat", "eb.dat"} |->
        IF f = "rrly.dat"
        THEN [t |-> <<R(0), R(1), R(2), R(3)>>,
              bands |-> [k \in 1..NBands |-> <<R(0), R(k), R(2 * k), R(3 * k)>>]]
        ELSE [t |-> <<R(0), <<1, 4>>, <<1, 2>>, <<3, 4>>>>,
              bands |-> [k \in 1..NBands |->
                           IF k = 1 THEN <<R(1), R(10), R(-1), <<1, 10>>>>
                           ELSE IF k = 2 THEN <<R(1), R(0), R(1), R(1)>>
                           ELSE <<R(1), R(1), R(1), R(1)>>]]]

\* The points (x[i], y[i]) lie on one straight line.
OnALine(x, y) ==
    \A i \in 3..Len(x) :
        RMul(RSub(y[i], y[1]), RSub(x[2], x[1]))
            = RMul(RSub(y[2], y[1]), RSub(x[i], x[1]))

\* InterpolatedUnivariateSpline(x, y)(phase), the cubic spline through the
\* points, where the model can tell its value: NaN at NaN; y[i] at a grid
\* point x[i]; and for points on a straight line that line, inside the
\* grid and outside it.
SplineAt(x, y, phase) ==
    CASE phase = NaN -> NaN
      [] phase # NaN /\ (\E i \in 1..Len(x) : x[i] = phase) ->
           y[CHOOSE i \in 1..Len(x) : x[i] = phase]
      [] phase # NaN /\ (\A i \in 1..Len(x) : x[i] # phase) /\ OnALine(x, y) ->
           RAdd(y[1], RMul(RDiv(RSub(y[2], y[1]), RSub(x[2], x[1])),
                           RSub(phase, x[1])))

\* Line 375: phase = epoch/period - epoch//period.
Phase(epoch, period) ==
    FSub(FDiv(epoch, period), FloorDivide(epoch, period))

\* A store that would keep the entry whatever self.variabilityCache says.
StoreLcAlways(lc, filename, entry) ==
    [lc EXCEPT !.files = [f \in DOMAIN @ \cup {filename} |->
                             IF f = filename THEN entry ELSE @[f]]]

\* Lines 362-363 and 371-372: the splines and the period of a file are kept
\* in self.variabilityLcCache if self.variabilityCache is set.
StoreLc(lc, filename, entry) ==
    IF lc.on
    THEN [lc EXCEPT !.files = [f \in DOMAIN @ \cup {filename} |->
                                  IF f = filename THEN entry ELSE @[f]]]
    ELSE lc

\* Lines 344-352: the file as loaded, its period (from the grid, or the
\* object's own 'period'), and the grid divided by the period if inDays.
LoadLc(filename, inPeriod, inDays) ==
    LET file   == LightCurves[filename]
        dt     == FSub(file.t[2], file.t[1])
        period == IF inPeriod = None THEN FAdd(file.t[Len(file.t)], dt)
                  ELSE inPeriod[1]
    IN  [period |-> period,
         x |-> IF inDays THEN [i \in 1..Len(file.t) |-> FDiv(file.t[i], period)]
               ELSE file.t,
         y |-> file.bands]

\* Lines 340-342 and 354-381 for the object at ix: e is the entry of the
\* file, from the cache or just loaded, and phase the phases of the times.
StdPeriodicObject(st, ix, filename, toff, e, phase, expmjd) ==
    Only({
      [st EXCEPT
         !.lc = IF filename \in DOMAIN st.lc.files THEN @ ELSE StoreLc(@, filename, e),
         !.magoff.data = [x \in DOMAIN @ |->
             IF x[2] = ix
             THEN values[x[1]][IF IsNumber(expmjd) THEN 1 ELSE x[3]]
             ELSE @[x]],
         !.log = Append(@,
             [by |-> "", ix |-> ix, filename |-> filename, toff |-> toff,
              period |-> e.period, cached |-> filename \in DOMAIN st.lc.files,
              epoch |-> [i \in 1..Len(expmjd.v) |-> FSub(R(expmjd.v[i]), toff)],
              phase |-> phase, values |-> values])] :
      values \in {[k \in 1..NBands |->
                     [i \in 1..Len(phase) |-> SplineAt(e.x, e.y[k], phase[i])]]} })

\* Lines 339 and 375 for every time of expmjd.
Phases(expmjd, toff, period) ==
    [i \in 1..Len(expmjd.v) |-> Phase(FSub(R(expmjd.v[i]), toff), period)]

\* The body of the loop of line 331 for the object at ix.
StdPeriodicBody(st, params, keymap, expmjd, inDays, ix) ==
    IF st.exc # "" THEN st
    ELSE IF keymap.filename \notin DOMAIN params \/ keymap.t0 \notin DOMAIN params
    THEN [st EXCEPT !.exc = "KeyError"]
    ELSE IF params[keymap.t0][ix] = None \/ params[keymap.filename][ix] = None
    THEN \* "expmjd - None", or os.path.join(dir, None)
         [st EXCEPT !.exc = "TypeError"]
    ELSE
      Only({
        Only({
          Only({ StdPeriodicObject(st, ix, filename, toff, e, phase, expmjd) :
                 phase \in {Phases(expmjd, toff, e.period)} }) :
          e \in { IF filename \in DOMAIN st.lc.files THEN st.lc.files[filename]
                  ELSE LoadLc(filename,
                              IF "period" \in DOMAIN params THEN params["period"][ix]
                              ELSE None,
                              inDays) } }) :
        filename \in {params[keymap.filename][ix][1]},
        toff \in {params[keymap.t0][ix][1]} })

RECURSIVE StdPeriodicLoop(_, _, _, _, _, _)
StdPeriodicLoop(st, valid_dexes, params, keymap, expmjd, inDays) ==
    IF valid_dexes = <<>> THEN st
    ELSE Only({ StdPeriodicLoop(s2, Tail(valid_dexes), params, keymap, expmjd, inDays) :
                s2 \in {StdPeriodicBody(st, params, keymap, expmjd, inDays,
                                        Head(valid_dexes))} })

\* Variability.applyStdPeriodic with self.variabilityLcCache = lc.files:
\* the exception raised, magoff, the cache left and one record per object.
applyStdPeriodic(lc, valid_dexes, params, keymap, expmjd, inDays) ==
    Only({ [exc |-> st.exc, ret |-> IF st.exc = "" THEN st.magoff ELSE NoArray,
            lc |-> st.lc, stdlog |-> st.log] :
           st \in {StdPeriodicLoop(
                      [exc |-> "", lc |-> lc, log |-> <<>>,
                       magoff |-> Zeros(IF IsNumber(expmjd)
                                        THEN <<NBands, num_variable_obj(params)>>
                                        ELSE <<NBands, num_variable_obj(params),
                                               Len(expmjd.v)>>)],
                      valid_dexes, params, keymap, expmjd, inDays)} })

\* What the stellar evaluator called name hands to the dispatch: the AGN
\* cache is not touched and no column of the catalog is read; the records of
\* applyStdPeriodic are marked with the evaluator that called it.
StellarResult(name, cache, r, ret) ==
    [exc |-> r.exc, ret |-> ret, cache |-> cache, log |-> <<>>, columns |-> <<>>,
     lc |-> r.lc,
     stdlog |-> [i \in 1..Len(r.stdlog) |-> [r.stdlog[i] EXCEPT !.by = name]]]

\* Lines 391-399, applyRRly, with parameters.
applyRRly(cache, lc, valid_dexes, params, expmjd) ==
    Only({ StellarResult("applyRRly", cache, r, r.ret) :
           r \in {applyStdPeriodic(lc, valid_dexes, params,
                                   [filename |-> "filename", t0 |-> "tStartMjd"],
                                   expmjd, TRUE)} })

\* Lines 401-409, applyCepheid, with parameters.
applyCepheid(cache, lc, valid_dexes, params, expmjd) ==
    Only({ StellarResult("applyCepheid", cache, r, r.ret) :
           r \in {applyStdPeriodic(lc, valid_dexes, params,
                                   [filename |-> "lcfile", t0 |-> "t0"],
                                   expmjd, FALSE)} })

\* d_fluxes.min(): NaN if the array holds a NaN, else its least element.
ArrayMin(a) ==
    IF \E x \in DOMAIN a.data : a.data[x] = NaN THEN NaN
    ELSE CHOOSE m \in {a.data[x] : x \in DOMAIN a.data} :
             \A x \in DOMAIN a.data : ~RLess(a.data[x], m)

\* numpy.log10 of a power of ten
Log10(q) ==
    CASE q = R(1) -> 0
      [] q = R(10) -> 1
      [] q = <<1, 10>> -> -1

\* An offset that would be the flux ratio itself where it is positive.
EbMagLinear(flux) ==
    IF flux = NaN THEN RZero
    ELSE IF flux[1] <= 0 THEN RZero
    ELSE flux

\* Lines 428-430 for one element: -2.5*log10(flux), and 0.0 where that is
\* NaN (a negative or NaN flux) or infinite (a zero flux).
EbMag(flux) ==
    IF flux = NaN THEN RZero
    ELSE IF flux[1] <= 0 THEN RZero
    ELSE RMul(<<-5, 2>>, R(Log10(flux)))

\* Lines 420-421: "d_fluxes.min() < 0.0", false when the minimum is NaN.
NegativeFlux(d_fluxes) ==
    \E m \in {ArrayMin(d_fluxes)} : m # NaN /\ m[1] < 0

\* Lines 411-431, applyEb, with parameters.
applyEb(cache, lc, valid_dexes, params, expmjd) ==
    Only({ IF r.exc # "" THEN StellarResult("applyEb", cache, r, NoArray)
           ELSE IF DOMAIN r.ret.data = {}
           THEN \* min() of an array without elements
                StellarResult("applyEb", cache, [r EXCEPT !.exc = "ValueError"], NoArray)
           ELSE IF NegativeFlux(r.ret)
           THEN StellarResult("applyEb", cache, [r EXCEPT !.exc = "RuntimeError"], NoArray)
           ELSE StellarResult("applyEb", cache, r,
                    [r.ret EXCEPT !.data = [x \in DOMAIN @ |-> EbMag(@[x])]]) :
           r \in {applyStdPeriodic(lc, valid_dexes, params,
                                   [filename |-> "lcfile", t0 |-> "t0"],
                                   expmjd, FALSE)} })

\* A stellar evaluator called with no parameters (lines 394, 404, 414, 450,
\* 485, 555): it returns the empty array and reads no column.
EmptyOnNoParams(cache, params) ==
    CASE DOMAIN params = {} ->
        [exc |-> "", ret |-> Empty6, cache |-> cache, log |-> <<>>, columns |-> <<>>]

\* MLTflaringMixin.applyMLTflaring with no parameters: parallax and ebv are
\* requested from the catalog before the empty array is returned.
applyMLTflaring(cache, valid_dexes, params, expmjd) ==
    CASE DOMAIN params = {} ->
        [exc |-> "", ret |-> Empty6, cache |-> cache, log |-> <<>>,
         columns |-> <<"parallax", "ebv">>]

\* What an evaluator that does not call applyStdPeriodic hands to the
\* dispatch: self.variabilityLcCache is as it was.
LeavingLc(r, lc) ==
    [exc |-> r.exc, ret |-> r.ret, cache |-> r.cache, log |-> r.log,
     columns |-> r.columns, lc |-> lc, stdlog |-> <<>>]

\* The call self._methodRegistry[name](valid_dexes, params, expmjd).
CallMethod(method, cache, lc, valid_dexes, params, expmjd) ==
    CASE method = "applyAgn" ->
           Only({ LeavingLc(r, lc) :
                  r \in {applyAgn(cache, valid_dexes, params, expmjd)} })
      [] method = "applyMLTflaring" ->
           Only({ LeavingLc(r, lc) :
                  r \in {applyMLTflaring(cache, valid_dexes, params, expmjd)} })
      [] method = "applyRRly" /\ DOMAIN params # {} ->
           applyRRly(cache, lc, valid_dexes, params, expmjd)
      [] method = "applyCepheid" /\ DOMAIN params # {} ->
           applyCepheid(cache, lc, valid_dexes, params, expmjd)
      [] method = "applyEb" /\ DOMAIN params # {} ->
           applyEb(cache, lc, valid_dexes, params, expmjd)
      [] OTHER -> LeavingLc(EmptyOnNoParams(cache, params), lc)

(***************************************************************************)
(* The parameter demultiplexer (applyVariability, lines 212-263).          *)
(***************************************************************************)
\* A varParamStr: the text 'None', or the JSON text of a dict, kept as the
\* dict json.loads makes of it.
NoneBlob == [text |-> "None", json |-> <<>>]

JsonBlob(dict) == [text |-> "json", json |-> dict]

\* A parser that would read the parameters under 'pars' only, and take a
\* dict without that key as one of no parameters.
ParseBlobParsOnly(blob) ==
    IF blob.text # "None"
    THEN [varCmd   |-> [k \in DOMAIN blob.json \cup {"pars"} |->
                          IF k = "pars" /\ "pars" \notin DOMAIN blob.json
                          THEN [x \in {} |-> 0] ELSE blob.json[k]],
          meth_key |-> IF "varMethodName" \in DOMAIN blob.json
                       THEN "varMethodName" ELSE "m",
          par_key  |-> "pars"]
    ELSE [varCmd   |-> [varMethodName |-> "None", pars |-> [x \in {} |-> 0]],
          meth_key |-> "varMethodName",
          par_key  |-> "pars"]

\* Lines 225-246: the dict of a blob and the two keys it is read under.
ParseBlob(blob) ==
    IF blob.text # "None"
    THEN [varCmd   |-> blob.json,
          meth_key |-> IF "varMethodName" \in DOMAIN blob.json
                       THEN "varMethodName" ELSE "m",
          par_key  |-> IF "pars" \in DOMAIN blob.json THEN "pars" ELSE "p"]
    ELSE [varCmd   |-> [varMethodName |-> "None", pars |-> [x \in {} |-> 0]],
          meth_key |-> "varMethodName",
          par_key  |-> "pars"]

Range(seq) == {seq[i] : i \in 1..Len(seq)}

\* An entry that would be filled with the values of the blob the model is
\* first met in.
InitModelParamsFilled(st, name, pars, n) ==
    IF name \notin Range(st.method_name_arr)
    THEN [k \in DOMAIN st.params \cup {name} |->
            IF k = name THEN [p \in DOMAIN pars |-> [i \in 1..n |-> <<pars[p]>>]]
            ELSE st.params[k]]
    ELSE st.params

\* Lines 251-254: the entry of a model in params when the model is met.
InitModelParams(st, name, pars, n) ==
    IF name \notin Range(st.method_name_arr)
    THEN [k \in DOMAIN st.params \cup {name} |->
            IF k = name THEN [p \in DOMAIN pars |-> [i \in 1..n |-> None]]
            ELSE st.params[k]]
    ELSE st.params

\* The body of the loop of line 224 for the blob at ix.
DemuxBody(st, blob, ix, n) ==
    LET c      == ParseBlob(blob)
        name   == c.varCmd[c.meth_key]
        pars   == c.varCmd[c.par_key]
        table  == InitModelParams(st, name, pars, n)
    IN  IF st.exc # "" THEN st
        ELSE IF \E p \in DOMAIN pars : p \notin DOMAIN table[name]
        THEN \* line 258: params[name][p_name] of a name the model's entry lacks
             [st EXCEPT !.exc = "KeyError"]
        ELSE [method_name_arr |-> Append(st.method_name_arr, name),
              params |-> [table EXCEPT ![name] =
                            [p \in DOMAIN @ |->
                               IF p \in DOMAIN pars
                               THEN [@[p] EXCEPT ![ix] = <<pars[p]>>] ELSE @[p]]],
              exc |-> ""]

RECURSIVE Demux(_, _)
Demux(varParams_arr, ix) ==
    IF ix = 0
    THEN [method_name_arr |-> <<>>, params |-> [k \in {} |-> 0], exc |-> ""]
    ELSE Only({ DemuxBody(st, varParams_arr[ix], ix, Len(varParams_arr)) :
                st \in {Demux(varParams_arr, ix - 1)} })

(***************************************************************************)
(* The dispatch (applyVariability, lines 188-204 and 265-283).             *)
(***************************************************************************)
\* A zero array that would ignore the length of a sequence of times.
DeltaMagZerosFlat(n, expmjd) == Zeros(<<NBands, n>>)

\* Lines 188-195: the zero array the offsets are added into.
DeltaMagZeros(n, expmjd) ==
    IF IsNumber(expmjd) \/ expmjd.k = "none"
    THEN Zeros(<<NBands, n>>)
    ELSE Zeros(<<NBands, n, Len(expmjd.v)>>)

\* numpy's rule for "out += in": the shape of in, aligned to the right of
\* the shape of out, must match it or be 1 in every place.
BroadcastsTo(inShape, outShape) ==
    /\ Len(inShape) <= Len(outShape)
    /\ \A j \in 1..Len(inShape) :
         LET o == outShape[Len(outShape) - Len(inShape) + j]
         IN  inShape[j] = o \/ inShape[j] = 1

\* deltaMag += ret, for a ret that broadcasts to deltaMag
AddInPlace(out, in) ==
    LET src(x) == [j \in 1..Len(in.shape) |->
                     IF in.shape[j] = 1 THEN 1
                     ELSE x[Len(x) - Len(in.shape) + j]]
    IN  [out EXCEPT !.data = [x \in DOMAIN @ |-> RAdd(@[x], in.data[src(x)])]]

\* numpy.unique sorts the names by code point; these are the names of the
\* model, so sorted.
NameOrder ==
    <<"MLT", "None", "applyAgn", "applyAmcvn", "applyBHMicrolens",
      "applyBogus", "applyCepheid", "applyEb", "applyMicrolens",
      "applyMicrolensing", "applyRRly">>

\* numpy.unique(method_name_arr)
Unique(method_name_arr) ==
    SelectSeq(NameOrder, LAMBDA k : k \in Range(method_name_arr))

\* Indices that would not be filtered by the name of the model.
ValidDexesAll(method_name, method_name_arr) == [i \in 1..Len(method_name_arr) |-> i]

\* numpy.where(numpy.char.equal(method_name, method_name_arr))[0]
ValidDexes(method_name, method_name_arr) ==
    SelectSeq([i \in 1..Len(method_name_arr) |-> i],
              LAMBDA i : method_name_arr[i] = method_name)

\* One record of the log of evaluator calls.
Invocation(name, valid_dexes, params, expmjd, columns, ret) ==
    [name |-> name, valid_dexes |-> valid_dexes, params |-> params,
     expmjd |-> expmjd, columns |-> columns, ret |-> ret]

\* An empty chunk that would call no evaluator.
EmptyChunkCallsSkipped(st, reg, keys, i) == st

\* The dispatch after the evaluator registered under name has been called
\* on valid_dexes and has come back with r.
AfterCall(st, name, valid_dexes, params, expmjd, r) ==
    [st EXCEPT !.cache = r.cache, !.lc = r.lc, !.exc = r.exc,
               !.agnlog = @ \o r.log, !.stdlog = @ \o r.stdlog,
               !.invoked = Append(@, Invocation(name, valid_dexes, params,
                                                expmjd, r.columns, r.ret))]

\* Lines 202-204: every registered method is called with ([], {}, 0).
RECURSIVE EmptyChunkCalls(_, _, _, _)
EmptyChunkCalls(st, reg, keys, i) ==
    IF i > Len(keys) \/ st.exc # "" THEN st
    ELSE Only({ EmptyChunkCalls(s2, reg, keys, i + 1) :
                s2 \in { AfterCall(st, keys[i], <<>>, [k \in {} |-> 0], Scalar(0), r) :
                         r \in {CallMethod(reg[keys[i]], st.cache, st.lc, <<>>,
                                           [k \in {} |-> 0], Scalar(0))} } })

\* Whether the dispatch finds an evaluator for the name (line 274).
Registered(method_name, reg) == method_name \in DOMAIN reg

\* A dispatch that would pass over a name without evaluator.
UnregisteredSkipped(st, expmjd) == [st EXCEPT !.expmjd = expmjd]

\* Lines 275-277: the dispatch raises for a name without evaluator.
Unregistered(st, expmjd) == [st EXCEPT !.exc = "RuntimeError", !.expmjd = expmjd]

\* A dispatch that would keep the array of the last evaluator only.
AddReturnedOverwriting(st, r) ==
    IF st.exc # "" THEN st
    ELSE IF ~BroadcastsTo(r.ret.shape, st.deltaMag.shape)
    THEN [st EXCEPT !.exc = "ValueError"]
    ELSE [st EXCEPT !.deltaMag = AddInPlace(Zeros(@.shape), r.ret)]

\* Line 279: "deltaMag += " what the evaluator returned, if it returned.
AddReturned(st, r) ==
    IF st.exc # "" THEN st
    ELSE IF ~BroadcastsTo(r.ret.shape, st.deltaMag.shape)
    THEN [st EXCEPT !.exc = "ValueError"]
    ELSE [st EXCEPT !.deltaMag = AddInPlace(@, r.ret)]

\* Lines 274-281 for one name, with the expmjd of lines 271-272.
DispatchName(st, reg, method_name, valid_dexes, params, expmjd) ==
    IF ~Registered(method_name, reg)
    THEN Unregistered(st, expmjd)
    ELSE Only({ AddReturned(AfterCall([st EXCEPT !.expmjd = expmjd], method_name,
                                      valid_dexes, params, expmjd, r), r) :
                r \in {CallMethod(reg[method_name], st.cache, st.lc, valid_dexes,
                                  params, expmjd)} })

\* The body of the loop of line 268 for one name of numpy.unique.
DispatchBody(st, reg, method_name, method_name_arr, params) ==
    IF st.exc # "" \/ method_name = "None" THEN st
    ELSE DispatchName(st, reg, method_name,
                      ValidDexes(method_name, method_name_arr), params[method_name],
                      IF st.expmjd.k = "none" THEN Scalar(ObsMjd) ELSE st.expmjd)

RECURSIVE Dispatch(_, _, _, _, _, _)
Dispatch(st, reg, names, method_name_arr, params, i) ==
    IF i > Len(names) THEN st
    ELSE Only({ Dispatch(s2, reg, names, method_name_arr, params, i + 1) :
                s2 \in {DispatchBody(st, reg, names[i], method_name_arr, params)} })

\* Lines 265-283 after the demultiplexer left dm: what the call hands back.
DispatchAll(st, reg, dm) ==
    Only({
        [exc |-> st2.exc,
         ret |-> IF st2.exc = "" THEN st2.deltaMag ELSE NoArray,
         cache |-> st2.cache,
         lc |-> st2.lc,
         method_name_arr |-> IF dm.exc = "" THEN dm.method_name_arr ELSE <<>>,
         params |-> IF dm.exc = "" THEN dm.params ELSE [k \in {} |-> 0],
         demux_exc |-> dm.exc,
         invoked |-> st2.invoked, agnlog |-> st2.agnlog,
         stdlog |-> st2.stdlog] :
        st2 \in { IF st.exc # "" THEN st
                  ELSE IF dm.exc # "" THEN [st EXCEPT !.exc = dm.exc]
                  ELSE Dispatch(st, reg, Unique(dm.method_name_arr),
                                dm.method_name_arr, dm.params, 1) } })

\* Variability.applyVariability on a catalog of the given class whose
\* registry is reg, with _AGN_LC_CACHE = cache, self.variabilityLcCache =
\* lc.files and self.variabilityCache = lc.on: the exception raised ("" for
\* none), the array returned, the caches left, and what the call did.
applyVariability(class, reg, cache, lc, varParams_arr, expmjd) ==
    Only({ DispatchAll(st, reg, dm) :
           st \in { IF Len(varParams_arr) = 0
                    THEN EmptyChunkCalls(
                             [deltaMag |-> DeltaMagZeros(0, expmjd), cache |-> cache,
                              lc |-> lc, expmjd |-> expmjd, exc |-> "",
                              invoked |-> <<>>, agnlog |-> <<>>, stdlog |-> <<>>],
                             reg, RegistryKeys(class, reg), 1)
                    ELSE [deltaMag |-> DeltaMagZeros(Len(varParams_arr), expmjd),
                          cache |-> cache, lc |-> lc, expmjd |-> expmjd,
                          exc |-> "", invoked |-> <<>>, agnlog |-> <<>>,
                          stdlog |-> <<>>] },
           dm \in {Demux(varParams_arr, Len(varParams_arr))} })

(***************************************************************************)
(* applyMicrolens, applyAmcvn and applyBHMicrolens (lines 433-588).  Their *)
(* offsets are logarithms, cosines and exponentials of the parameters; an  *)
(* element of the array returned is kept as the term the code computes,    *)
(* with the rational arguments the functions are applied to, and the zero  *)
(* the array was made of stays the number 0.                               *)
(***************************************************************************)
\* params[name].astype(float)[valid_dexes], or params[name][valid_dexes]:
\* the values of the objects of valid_dexes, in their order.
Take(params, name, valid_dexes) ==
    [j \in 1..Len(valid_dexes) |-> AsFloat(params[name][valid_dexes[j]])]

\* The positions an evaluator computes a value for: <<j, it, k>> for the
\* object at position j of valid_dexes, the time at position it and the
\* band k.
FillArgs(valid_dexes, expmjd) ==
    (1..Len(valid_dexes)) \X (1..Len(expmjd.v)) \X (1..NBands)

\* The zero array of the shape of the times (lines 454-460 and the like)
\* with the elements of the objects of valid_dexes replaced by the values
\* of val, a function of FillArgs.
Filled(valid_dexes, params, expmjd, val) ==
    Only({ [z EXCEPT !.data = [x \in DOMAIN @ |->
              IF \E j \in 1..Len(valid_dexes) : valid_dexes[j] = x[2]
              THEN val[<<CHOOSE j \in 1..Len(valid_dexes) : valid_dexes[j] = x[2],
                         IF Len(x) = 3 THEN x[3] ELSE 1, x[1]>>]
              ELSE @[x]]] :
           z \in {Zeros(IF IsNumber(expmjd)
                        THEN <<NBands, num_variable_obj(params)>>
                        ELSE <<NBands, num_variable_obj(params), Len(expmjd.v)>>)} })

\* What an evaluator of this section hands to the dispatch.
Evaluated(cache, exc, ret) ==
    [exc |-> exc, ret |-> ret, cache |-> cache, log |-> <<>>, columns |-> <<>>]

\* A microlensing evaluator that would start from an array of ones: the
\* elements of the objects outside valid_dexes are left at 1.
applyMicrolensOnOnes(cache, valid_dexes, params, expmjd) ==
    IF {"t0", "umin", "that"} \subseteq DOMAIN params
    THEN Evaluated(cache, "",
           Only({ [z EXCEPT !.data = [x \in DOMAIN @ |->
                     IF x[2] \in Range(valid_dexes)
                     THEN [microlens_u2 |-> RZero] ELSE R(1)]] :
                  z \in {Zeros(IF IsNumber(expmjd)
                               THEN <<NBands, num_variable_obj(params)>>
                               ELSE <<NBands, num_variable_obj(params), Len(expmjd.v)>>)} }))
    ELSE Evaluated(cache, "KeyError", NoArray)

\* Lines 437-472, applyMicrolens with parameters (applyMicrolensing, lines
\* 433-435, calls it): the same offset in the six bands,
\* -2.5*log10((u^2+2)/(u*sqrt(u^2+4))), kept as u^2 = umin^2 +
\* (2*(expmjd - t0)/that)^2.
applyMicrolens(cache, valid_dexes, params, expmjd) ==
    IF {"t0", "umin", "that"} \subseteq DOMAIN params
    THEN Only({
           Evaluated(cache, "",
             Filled(valid_dexes, params, expmjd,
                    [a \in FillArgs(valid_dexes, expmjd) |->
                      [microlens_u2 |->
                         IF t0[a[1]] = NaN \/ umin[a[1]] = NaN \/ that[a[1]] = NaN THEN NaN
                         ELSE RAdd(RMul(umin[a[1]], umin[a[1]]),
                                   RMul(RDiv(RMul(R(2), RSub(R(expmjd.v[a[2]]), t0[a[1]])), that[a[1]]),
                                        RDiv(RMul(R(2), RSub(R(expmjd.v[a[2]]), t0[a[1]])), that[a[1]])))]])) :
           t0 \in {Take(params, "t0", valid_dexes)},
           umin \in {Take(params, "umin", valid_dexes)},
           that \in {Take(params, "that", valid_dexes)} })
    ELSE Evaluated(cache, "KeyError", NoArray)

\* Line 488.
maxyears == 10

\* maxyears*365.25
BurstSpan == RMul(R(maxyears), <<1461, 4>>)

\* Lines 524-526: numpy.linspace(t0 + burst_freq, t0 + maxyears*365.25,
\* numpy.ceil(maxyears*365.25/burst_freq)), the times of the bursts.
BurstTimes(t0, burst_freq) ==
    Only({ [i \in 1..n |->
              IF n = 1 THEN RAdd(t0, burst_freq)
              ELSE RAdd(RAdd(t0, burst_freq),
                        RMul(RDiv(R(i - 1), R(n - 1)), RSub(BurstSpan, burst_freq)))] :
           n \in {RCeil(RDiv(BurstSpan, burst_freq))} })

\* Lines 527-528: the bursts whose pulse counts at the time epoch, those
\* with tmp = exp(-(epoch - o)/burst_scale)/exp(-1) < 1.0, which for a
\* positive burst_scale are those with (epoch - o)/burst_scale > 1.
Pulses(epoch, t0, burst_freq, burst_scale) ==
    Only({ {o[i] : i \in {i \in 1..Len(o) :
                              RLess(R(1), RDiv(RSub(epoch, o[i]), burst_scale))}} :
           o \in {BurstTimes(t0, burst_freq)} })

\* Lines 530-532: the colour excess added to a band, 2, 1 and 1/2 times
\* color_excess_during_burst in u, g and r.
BandExcess(k, color_excess) ==
    IF k = 1 THEN RMul(R(2), color_excess)
    ELSE IF k = 2 THEN color_excess
    ELSE IF k = 3 THEN RMul(<<1, 2>>, color_excess)
    ELSE RZero

\* Lines 475-543, applyAmcvn with parameters.  An offset is kept as
\*   cos:    <<amplitude, (expmjd - t0)/period>>, for amplitude*cos(.);
\*   pulses: the bursts whose pulse is subtracted (line 528), and
\*   excess: what lines 530-535 add to the band beside the pulses.
applyAmcvn(cache, valid_dexes, params, expmjd) ==
    IF {"amplitude", "t0", "period", "burst_freq", "burst_scale", "amp_burst",
        "color_excess_during_burst", "does_burst"} \subseteq DOMAIN params
    THEN Only({
           Evaluated(cache, "",
             Filled(valid_dexes, params, expmjd,
                    [a \in FillArgs(valid_dexes, expmjd) |->
                      [cos |-> <<amplitude[a[1]],
                                 RDiv(RSub(R(expmjd.v[a[2]]), t0[a[1]]), period[a[1]])>>,
                       pulses |-> IF does_burst[a[1]] = R(1)
                                  THEN Pulses(R(expmjd.v[a[2]]), t0[a[1]], burst_freq[a[1]],
                                              burst_scale[a[1]])
                                  ELSE {},
                       excess |-> IF does_burst[a[1]] = R(1)
                                  THEN BandExcess(a[3], color_excess[a[1]])
                                  ELSE RZero]])) :
           amplitude \in {Take(params, "amplitude", valid_dexes)},
           t0 \in {Take(params, "t0", valid_dexes)},
           period \in {Take(params, "period", valid_dexes)},
           burst_freq \in {Take(params, "burst_freq", valid_dexes)},
           burst_scale \in {Take(params, "burst_scale", valid_dexes)},
           color_excess \in {Take(params, "color_excess_during_burst", valid_dexes)},
           does_burst \in {Take(params, "does_burst", valid_dexes)} })
    ELSE Evaluated(cache, "KeyError", NoArray)

\* The file of a black-hole lens event numpy.loadtxt reads: the grid, in
\* years, and the magnification on it, 1 + t.
BHLightCurve == [t |-> <<R(0), R(1), R(2), R(3)>>, mag |-> <<R(1), R(2), R(3), R(4)>>]

\* Lines 545-588, applyBHMicrolens with parameters: the same offset in the
\* six bands, -2.5*log(mag_val), kept as mag_val, the spline through the
\* file with its grid in days (line 573) at expmjd - t0, and 1 where that
\* is NaN.
applyBHMicrolens(cache, valid_dexes, params, expmjd) ==
    IF {"filename", "t0"} \subseteq DOMAIN params
    THEN Only({
           Evaluated(cache, "",
             Filled(valid_dexes, params, expmjd,
                    [a \in FillArgs(valid_dexes, expmjd) |->
                      [bh_mag_val |->
                         Only({ IF mag_val = NaN THEN R(1) ELSE mag_val :
                                mag_val \in {SplineAt(
                                    [i \in 1..Len(BHLightCurve.t) |->
                                       RMul(BHLightCurve.t[i], R(365))],
                                    BHLightCurve.mag,
                                    IF toff[a[1]] = NaN THEN NaN
                                    ELSE RSub(R(expmjd.v[a[2]]), toff[a[1]]))} })]])) :
           toff \in {Take(params, "t0", valid_dexes)} })
    ELSE Evaluated(cache, "KeyError", NoArray)

(***************************************************************************)
(* MLTflaringMixin.applyMLTflaring with parameters (lines 600-823): the     *)
(* archive and its caches, the light curves of the objects one name after  *)
(* the other, and for each the loop that wraps the times asked for.  The   *)
(* times are whole days near _survey_start, which doubles add and          *)
(* subtract exactly.                                                       *)
(***************************************************************************)
\* Line 117: the start of the survey, MJD.
survey_start == 59580

\* Lines 597-598: the class attribute _mlt_lc_file, the archive of the
\* package's data directory.
DefaultMltLcFile == "mdwarf_flare_light_curves_170412.npz"

\* What numpy.load reads from the files _mlt_lc_file can name: for a light
\* curve its '<name>_time' grid, in days from the start of the survey, and
\* its '<name>_<band>' fluxes on the grid (here the same in every band).  The
\* curve mid_active has one sample.
MltArchives ==
    [f \in {DefaultMltLcFile, "other.npz"} |->
        IF f = DefaultMltLcFile
        THEN [time |-> [early_active |-> <<R(0), R(1), R(2)>>, mid_active |-> <<R(1)>>],
              flux |-> [early_active |-> <<R(0), R(4), R(0)>>, mid_active |-> <<R(1)>>]]
        ELSE [time |-> [early_active |-> <<R(0), R(2), R(4)>>, mid_active |-> <<R(1)>>],
              flux |-> [early_active |-> <<R(2), R(0), R(2)>>, mid_active |-> <<R(3)>>]]]

\* The archive object numpy.load returns: the file it reads and whether its
\* file handle is open (fid is not None).
NpzFile(f) == [file |-> f, fid |-> TRUE]

\* A reload that would leave the two caches as they are.
MltLoadKeepingCaches(g, file) ==
    IF g.npz = None \/ g.name # <<file>> \/ ~g.npz[1].fid
    THEN [g EXCEPT !.npz = <<NpzFile(file)>>, !.name = <<file>>, !.reloaded = TRUE]
    ELSE g

\* Lines 650-665: the archive is loaded when none is, when the one loaded
\* is not self._mlt_lc_file, or when its handle was closed; the name is
\* recorded and both caches are emptied.
MltLoad(g, file) ==
    IF g.npz = None \/ g.name # <<file>> \/ ~g.npz[1].fid
    THEN [g EXCEPT !.npz = <<NpzFile(file)>>, !.name = <<file>>,
                   !.tc = EmptyCache, !.fc = EmptyCache, !.reloaded = TRUE]
    ELSE g

\* Lines 753 and 762-763 for the names of the archive: '.txt' is dropped, and
\* in a name with 'late' every 'in' (none of these names has either).
MltLcName(lc_name) ==
    CASE lc_name \in {"early_active", "mid_active"} -> lc_name

\* numpy.interp(t, xp, fp): the fluxes joined by straight lines, the first
\* flux before the grid and the last after it.
Interp(t, xp, fp) ==
    IF ~RLess(xp[1], t) THEN fp[1]
    ELSE IF ~RLess(t, xp[Len(xp)]) THEN fp[Len(fp)]
    ELSE Only({ RAdd(fp[i], RMul(RDiv(RSub(fp[i + 1], fp[i]), RSub(xp[i + 1], xp[i])),
                                 RSub(t, xp[i]))) :
                i \in {CHOOSE i \in 1..(Len(xp) - 1) :
                          ~RLess(t, xp[i]) /\ RLess(t, xp[i + 1])} })

\* The greatest of the values of a function that has some.
MaxOf(f) == CHOOSE m \in {f[x] : x \in DOMAIN f} : \A x \in DOMAIN f : ~RLess(m, f[x])

MinOf(f) == CHOOSE m \in {f[x] : x \in DOMAIN f} : \A x \in DOMAIN f : ~RLess(f[x], m)

\* Lines 745-746: params['lc'].astype(str), and numpy.unique of it (sorted).
LcNameArr(params) ==
    [i \in 1..num_variable_obj(params) |->
        IF params["lc"][i] = None THEN "None" ELSE params["lc"][i][1]]

LcNamesUnique(params) ==
    SelectSeq(<<"None", "early_active", "mid_active">>,
              LAMBDA n : n \in Range(LcNameArr(params)))

\* Lines 747-782 up to the test of the while loop, for the next name of
\* c.names that is not 'None': the objects of the light curve, its time
\* grid, from the cache or from the archive and then cached, and the times
\* to interpolate at, expmjd + t0, one per object and time; with no name
\* left, line 823.  c is the call and g the four globals.
RECURSIVE MltNextLc(_, _)
MltNextLc(c, g) ==
    IF c.names = <<>> THEN [c |-> [c EXCEPT !.pc = "done"], g |-> g]
    ELSE IF Head(c.names) = "None"
    THEN MltNextLc([c EXCEPT !.names = Tail(@)], g)
    ELSE
      Only({
        Only({
          IF DOMAIN t_interp = {}
          THEN \* max() of an array without elements
               [c |-> [c EXCEPT !.pc = "done", !.exc = "ValueError"], g |-> g2]
          ELSE [c |-> [c EXCEPT !.pc = "wrap", !.lc_name = lc_name,
                                !.use_this_lc = use, !.time_arr = time_arr,
                                !.dt = RSub(MaxOf(time_arr), MinOf(time_arr)),
                                !.asked = t_interp, !.t_interp = t_interp],
                g |-> g2] :
          g2 \in {[g EXCEPT !.tc = [n \in DOMAIN @ \cup {lc_name} |->
                                      IF n \in DOMAIN @ THEN @[n]
                                      ELSE MltArchives[g.npz[1].file].time[n]]]},
          time_arr \in {[i \in 1..Len(raw) |-> RAdd(R(survey_start), raw[i])]},
          t_interp \in {[x \in {<<j, it>> : j \in 1..Len(use), it \in 1..Len(c.expmjd.v)} |->
                           RAdd(R(c.expmjd.v[x[2]]), c.params["t0"][use[x[1]]][1])]} }) :
        lc_name \in {MltLcName(Head(c.names))},
        use \in {SelectSeq([i \in 1..num_variable_obj(c.params) |-> i],
                           LAMBDA i : LcNameArr(c.params)[i] = Head(c.names))},
        raw \in {IF MltLcName(Head(c.names)) \in DOMAIN g.tc
                 THEN g.tc[MltLcName(Head(c.names))]
                 ELSE MltArchives[g.npz[1].file].time[MltLcName(Head(c.names))]} })

\* Lines 783-784, one pass of the body of the while loop: dt is subtracted
\* from every time that is after the end of the grid.
MltWrap(c) ==
    [c EXCEPT !.t_interp = [x \in DOMAIN @ |->
                              IF RLess(MaxOf(c.time_arr), @[x])
                              THEN RSub(@[x], c.dt) ELSE @[x]]]

\* Line 782, the test of the while loop.
MltMustWrap(c) == RLess(MaxOf(c.time_arr), MaxOf(c.t_interp))

\* Lines 786-822 for the light curve the loop was left for: the fluxes of
\* each band, from the cache or from the archive and then cached, are
\* interpolated at the wrapped times.  An element of dMags is written for
\* the objects of the light curve only; it is kept as the flux
\* interpolated, [dflux |-> .], from which lines 798-821 compute the
\* magnitude with the distance, the dust and the quiescent magnitude of
\* the object.  Then the next name is turned to.
MltFinishLc(c, g) ==
    Only({
      MltNextLc(
        [c EXCEPT
           !.names = Tail(@),
           !.dMags.data = [x \in DOMAIN @ |->
              IF \E j \in 1..Len(c.use_this_lc) : c.use_this_lc[j] = x[2]
              THEN [dflux |->
                      Interp(c.t_interp[<<CHOOSE j \in 1..Len(c.use_this_lc) :
                                            c.use_this_lc[j] = x[2],
                                         IF Len(x) = 3 THEN x[3] ELSE 1>>],
                             c.time_arr, g2.fc[<<c.lc_name, x[1]>>])]
              ELSE @[x]],
           !.wraplog = Append(@, [lc_name |-> c.lc_name, asked |-> c.asked,
                                  wrapped |-> c.t_interp, tmax |-> MaxOf(c.time_arr),
                                  dt |-> c.dt])],
        g2) :
      g2 \in {[g EXCEPT !.fc =
                 [n \in DOMAIN @ \cup {<<c.lc_name, k>> : k \in 1..NBands} |->
                    IF n \in DOMAIN @ THEN @[n]
                    ELSE MltArchives[g.npz[1].file].flux[c.lc_name]]]} })

\* Lines 600-746: the call up to the loop over the names of the light
\* curves.  obj is the catalog (with photParams, lsstBandpassDict and all six
\* magnitudes among its columns), g the four globals.
MltBegin(obj, g, params, expmjd) ==
    IF DOMAIN params = {}
    THEN [c |-> [op |-> "applyMLTflaring", pc |-> "done", exc |-> "",
                 params |-> params, expmjd |-> expmjd, dMags |-> Empty6,
                 file |-> obj.mlt_lc_file, g0 |-> g, wraplog |-> <<>>],
          g |-> g]
    ELSE IF "lc" \notin DOMAIN params \/ "t0" \notin DOMAIN params
    THEN [c |-> [op |-> "applyMLTflaring", pc |-> "done", exc |-> "KeyError",
                 params |-> params, expmjd |-> expmjd, dMags |-> NoArray,
                 file |-> obj.mlt_lc_file, g0 |-> g, wraplog |-> <<>>],
          g |-> MltLoad(g, obj.mlt_lc_file)]
    ELSE MltNextLc(
           [op |-> "applyMLTflaring", pc |-> "wrap", exc |-> "",
            params |-> params, expmjd |-> expmjd,
            dMags |-> Zeros(IF IsNumber(expmjd)
                            THEN <<NBands, num_variable_obj(params)>>
                            ELSE <<NBands, num_variable_obj(params), Len(expmjd.v)>>),
            file |-> obj.mlt_lc_file, g0 |-> g, wraplog |-> <<>>,
            names |-> LcNamesUnique(params), lc_name |-> "", use_this_lc |-> <<>>,
            time_arr |-> <<>>, dt |-> RZero, asked |-> <<>>, t_interp |-> <<>>],
           MltLoad(g, obj.mlt_lc_file))

(***************************************************************************)
(* The inputs the callers are driven with.                                 *)
(***************************************************************************)
\* Three AGN with their damped-random-walk parameters.  tau = 200 gives
\* bins of 2 days, so that odd MJDs fall inside a bin; tau = 100 bins of 1.
ParsA ==
    [t0_mjd |-> 0, seed |-> 3, agn_tau |-> 200, agn_sfu |-> 1, agn_sfg |-> 2,
     agn_sfr |-> 3, agn_sfi |-> 1, agn_sfz |-> 2, agn_sfy |-> 3]

ParsB ==
    [t0_mjd |-> 1, seed |-> 2, agn_tau |-> 100, agn_sfu |-> 2, agn_sfg |-> 1,
     agn_sfr |-> 1, agn_sfi |-> 3, agn_sfz |-> 1, agn_sfy |-> 2]

\* a later start, and a parameter the model does not read
ParsC ==
    [t0_mjd |-> 2, seed |-> 5, agn_tau |-> 200, agn_sfu |-> 3, agn_sfg |-> 1,
     agn_sfr |-> 2, agn_sfi |-> 2, agn_sfz |-> 3, agn_sfy |-> 1, note |-> 7]

BlobA == JsonBlob([m |-> "applyAgn", p |-> ParsA])

BlobB == JsonBlob([varMethodName |-> "applyAgn", pars |-> ParsB])

BlobC == JsonBlob([m |-> "applyAgn", pars |-> ParsC])

\* an AGN blob with no parameters at all
BlobE == JsonBlob([m |-> "applyAgn", p |-> [x \in {} |-> 0]])

\* a model no class registers
BlobX == JsonBlob([varMethodName |-> "applyBogus", p |-> [x |-> 1]])

\* An RR Lyrae whose light curve starts 1/32 day after MJD 0.
BlobR ==
    JsonBlob([varMethodName |-> "applyRRly",
              pars |-> [filename |-> "rrly.dat", tStartMjd |-> <<1, 32>>]])

\* An eclipsing binary of period 4 days: the MJDs 0, 1, 2, 3 fall on the
\* grid of eb.dat, MJD 2 where the flux ratio of u is negative.
BlobEb ==
    JsonBlob([m |-> "applyEb",
              p |-> [lcfile |-> "eb.dat", t0 |-> R(0), period |-> R(4)]])

\* The same binary with a t0 that is NaN (json.loads reads the literal).
BlobEbNaN ==
    JsonBlob([m |-> "applyEb",
              p |-> [lcfile |-> "eb.dat", t0 |-> NaN, period |-> R(4)]])

\* A binary that reads the same file with a period of its own, 1 day: every
\* whole MJD is its phase 0.
BlobEbFast ==
    JsonBlob([m |-> "applyEb",
              p |-> [lcfile |-> "eb.dat", t0 |-> R(0), period |-> R(1)]])

\* The blobs a catalog of each class is fed.
Blobs(class) ==
    IF class = "VariabilityAGN"
    THEN {NoneBlob, BlobA, BlobB, BlobC, BlobE, BlobX}
    ELSE {NoneBlob, BlobA, BlobX, BlobR, BlobEb, BlobEbNaN, BlobEbFast}

SeqsUpTo(S, n) == UNION {[1..k -> S] : k \in 0..n}

TimeVectors == {<<>>, <<2>>, <<1, 3>>, <<3, 1>>, <<2, 0>>, <<0, 2>>}

ExpMjds ==
    {NoTime} \cup {Scalar(t) : t \in 0..MaxMjd} \cup {Vector(v) : v \in TimeVectors}

(***************************************************************************)
(* The state: the catalog object, the process-wide AGN cache, the          *)
(* process-wide archive and caches of the MLT flares, and the caller, who  *)
(* is idle, holds what its last call handed back, or is inside a call.     *)
(***************************************************************************)
VARIABLES self, AGN_LC_CACHE, last,
          MLT_LC_NPZ, MLT_LC_NPZ_NAME, MLT_LC_TIME_CACHE, MLT_LC_FLUX_CACHE

\* The four globals of lines 87-94.
mltVars == <<MLT_LC_NPZ, MLT_LC_NPZ_NAME, MLT_LC_TIME_CACHE, MLT_LC_FLUX_CACHE>>

vars == <<self, AGN_LC_CACHE, last, mltVars>>

NoCall == [op |-> "none"]

Init ==
    /\ self \in {[class |-> c, hasMethodRegistry |-> FALSE,
                  methodRegistry |-> [k \in {} |-> ""],
                  registryScans |-> 0,
                  variabilityLcCache |-> [f \in {} |-> 0],
                  variabilityInitialized |-> FALSE,
                  variabilityCache |-> FALSE,
                  mlt_lc_file |-> DefaultMltLcFile] : c \in Classes}
    /\ AGN_LC_CACHE = EmptyCache
    /\ last = NoCall
    /\ MLT_LC_NPZ = None
    /\ MLT_LC_NPZ_NAME = None
    /\ MLT_LC_TIME_CACHE = EmptyCache
    /\ MLT_LC_FLUX_CACHE = EmptyCache

\* A preparation that would scan the methods at every call.
PreparedScanning(obj) ==
    [obj EXCEPT
       !.hasMethodRegistry = TRUE,
       !.methodRegistry =
           BuildRegistry(ClassMethods(obj.class), Len(ClassMethods(obj.class))),
       !.registryScans = @ + 1,
       !.variabilityInitialized = TRUE,
       !.variabilityLcCache = IF obj.variabilityInitialized THEN @ ELSE [f \in {} |-> 0],
       !.variabilityCache = IF obj.variabilityInitialized THEN @ ELSE TRUE]

\* Lines 176-185: the registry is built when the object has none, and the
\* variability is initialized, with doCache=True, when it was not.
\* registryScans counts the scans of dir(self) (line 178) made so far.
Prepared(obj) ==
    [obj EXCEPT
       !.hasMethodRegistry = TRUE,
       !.methodRegistry =
           IF obj.hasMethodRegistry THEN @
           ELSE BuildRegistry(ClassMethods(obj.class), Len(ClassMethods(obj.class))),
       !.registryScans = IF obj.hasMethodRegistry THEN @ ELSE @ + 1,
       !.variabilityInitialized = TRUE,
       !.variabilityLcCache = IF obj.variabilityInitialized THEN @ ELSE [f \in {} |-> 0],
       !.variabilityCache = IF obj.variabilityInitialized THEN @ ELSE TRUE]

\* self.variabilityCache and self.variabilityLcCache, as applyStdPeriodic
\* reads them.
LcOf(obj) == [on |-> obj.variabilityCache, files |-> obj.variabilityLcCache]

\* A caller calls self.applyVariability(varParams_arr, expmjd), from idle or
\* straight after a reset of the cache; "after" records which.
ApplyVariability ==
    /\ last.op \in {"none", "reset_agn_lc_cache"}
    /\ \E varParams_arr \in SeqsUpTo(Blobs(self.class), MaxBatch), expmjd \in ExpMjds :
         \E obj \in {Prepared(self)} :
           \E r \in {applyVariability(obj.class, obj.methodRegistry, AGN_LC_CACHE,
                                     LcOf(obj), varParams_arr, expmjd)} :
             /\ self' = [obj EXCEPT !.variabilityLcCache = r.lc.files]
             /\ AGN_LC_CACHE' = r.cache
             /\ last' = [op |-> "applyVariability", after |-> last.op,
                         varParams_arr |-> varParams_arr,
                         expmjd |-> expmjd, exc |-> r.exc, ret |-> r.ret,
                         method_name_arr |-> r.method_name_arr, params |-> r.params,
                         demux_exc |-> r.demux_exc,
                         invoked |-> r.invoked, agnlog |-> r.agnlog,
                         stdlog |-> r.stdlog, cache0 |-> AGN_LC_CACHE,
                         lc0 |-> LcOf(obj)]
    /\ UNCHANGED mltVars

\* Lines 139-159: a caller calls self.initializeVariability(doCache), with
\* doCache given or left at its default False.
initializeVariability(obj, doCache) ==
    [obj EXCEPT !.variabilityInitialized = TRUE,
                !.variabilityLcCache = [f \in {} |-> 0],
                !.variabilityCache = doCache]

InitializeVariability ==
    /\ last = NoCall
    /\ \E doCache \in BOOLEAN :
         /\ self' = initializeVariability(self, doCache)
         /\ last' = [op |-> "initializeVariability", doCache |-> doCache]
    /\ UNCHANGED <<AGN_LC_CACHE, mltVars>>

\* A caller calls reset_agn_lc_cache().
ResetAgnLcCache ==
    /\ last = NoCall
    /\ AGN_LC_CACHE' = reset_agn_lc_cache
    /\ last' = [op |-> "reset_agn_lc_cache"]
    /\ UNCHANGED <<self, mltVars>>

\* The caller is inside applyMLTflaring, at the while loop of line 782.
Running == last.op = "applyMLTflaring" /\ last.pc = "wrap"

\* The caller is done with what the call returned or raised.
Continue ==
    /\ last # NoCall
    /\ ~Running
    /\ last' = NoCall
    /\ UNCHANGED <<self, AGN_LC_CACHE, mltVars>>

Next == ApplyVariability \/ ResetAgnLcCache \/ InitializeVariability \/ Continue

Spec == Init /\ [][Next]_vars

(***************************************************************************)
(* The evaluators called one by one, as line 279 calls them: a caller      *)
(* demultiplexes a batch and calls the evaluator of one of its models with *)
(* the objects and parameters of that model.  applyMLTflaring is followed  *)
(* through its loop, pass by pass.                                         *)
(***************************************************************************)
\* A lens event, an AM CVn that bursts first at MJD 0 (t0 + burst_freq), one
\* that does not burst, a black-hole lens event, and two flaring dwarfs,
\* whose t0 shifts the small MJDs asked for to the grids of the archive.
BlobMicrolens ==
    JsonBlob([m |-> "applyMicrolens", p |-> [t0 |-> 1, umin |-> 1, that |-> 2]])

ParsAmcvn ==
    [amplitude |-> 1, t0 |-> -1461, period |-> 2, burst_freq |-> 1461,
     burst_scale |-> 1, amp_burst |-> 1, color_excess_during_burst |-> 1,
     does_burst |-> 1]

BlobAmcvn == JsonBlob([m |-> "applyAmcvn", p |-> ParsAmcvn])

BlobAmcvnQuiet ==
    JsonBlob([m |-> "applyAmcvn", p |-> [ParsAmcvn EXCEPT !.does_burst = 0]])

BlobBH == JsonBlob([m |-> "applyBHMicrolens", p |-> [filename |-> "bh.dat", t0 |-> 0]])

BlobMLT(lc, t0) == JsonBlob([m |-> "MLT", p |-> [lc |-> lc, t0 |-> R(t0)]])

MltBlobs ==
    {NoneBlob, BlobMLT("early_active", survey_start), BlobMLT("early_active", survey_start + 2),
     BlobMLT("mid_active", survey_start), BlobMLT("mid_active", survey_start - 2)}

EvalBlobs(class) ==
    IF class = "VariabilityAGN" THEN {NoneBlob, BlobA, BlobB}
    ELSE {NoneBlob, BlobR, BlobEb, BlobMicrolens, BlobAmcvn, BlobAmcvnQuiet, BlobBH}

EvalMjds == {Scalar(1), Scalar(3), Vector(<<1, 3>>), Vector(<<>>)}

\* The call self._methodRegistry[name](valid_dexes, params, expmjd) for every
\* evaluator but applyMLTflaring.
EvalMethod(method, cache, lc, valid_dexes, params, expmjd) ==
    CASE method \in {"applyMicrolens", "applyMicrolensing"} /\ DOMAIN params # {} ->
           LeavingLc(applyMicrolens(cache, valid_dexes, params, expmjd), lc)
      [] method = "applyAmcvn" /\ DOMAIN params # {} ->
           LeavingLc(applyAmcvn(cache, valid_dexes, params, expmjd), lc)
      [] method = "applyBHMicrolens" /\ DOMAIN params # {} ->
           LeavingLc(applyBHMicrolens(cache, valid_dexes, params, expmjd), lc)
      [] OTHER -> CallMethod(method, cache, lc, valid_dexes, params, expmjd)

CallEvaluator ==
    /\ last = NoCall
    /\ \E varParams_arr \in SeqsUpTo(EvalBlobs(self.class), MaxBatch), expmjd \in EvalMjds :
         \E obj \in {Prepared(self)}, dm \in {Demux(varParams_arr, Len(varParams_arr))} :
           /\ dm.exc = ""
           /\ \E name \in Range(dm.method_name_arr) \cap DOMAIN obj.methodRegistry :
                \E valid_dexes \in {ValidDexes(name, dm.method_name_arr)} :
                  \E r \in {EvalMethod(obj.methodRegistry[name], AGN_LC_CACHE, LcOf(obj),
                                        valid_dexes, dm.params[name], expmjd)} :
                    /\ self' = [obj EXCEPT !.variabilityLcCache = r.lc.files]
                    /\ AGN_LC_CACHE' = r.cache
                    /\ last' = [op |-> "evaluator", name |-> name,
                                valid_dexes |-> valid_dexes, params |-> dm.params[name],
                                expmjd |-> expmjd, exc |-> r.exc, ret |-> r.ret]
    /\ UNCHANGED mltVars

NextEval == CallEvaluator \/ Continue

\* The calls of the other evaluators.
SpecEval == Init /\ [][NextEval]_vars

\* The four globals, as the operators of applyMLTflaring take them.
MltGlobals ==
    [npz |-> MLT_LC_NPZ, name |-> MLT_LC_NPZ_NAME, tc |-> MLT_LC_TIME_CACHE,
     fc |-> MLT_LC_FLUX_CACHE, reloaded |-> FALSE]

\* The globals and the caller after a part of applyMLTflaring left r.
MltLeaves(r) ==
    /\ MLT_LC_NPZ' = r.g.npz
    /\ MLT_LC_NPZ_NAME' = r.g.name
    /\ MLT_LC_TIME_CACHE' = r.g.tc
    /\ MLT_LC_FLUX_CACHE' = r.g.fc
    /\ last' = [r.c EXCEPT !.reloaded = r.g.reloaded]

\* A caller calls the evaluator registered as 'MLT'; the call runs up to
\* the test of the first while loop, or to its end when it meets none.
CallMLT ==
    /\ last = NoCall
    /\ self.class = "VariabilityStars"
    /\ \E varParams_arr \in SeqsUpTo(MltBlobs, MaxBatch), expmjd \in EvalMjds :
         \E obj \in {Prepared(self)}, dm \in {Demux(varParams_arr, Len(varParams_arr))} :
           /\ dm.exc = ""
           /\ "MLT" \in Range(dm.method_name_arr)
           /\ \E r \in {MltBegin(obj, MltGlobals, dm.params["MLT"], expmjd)} :
                /\ self' = obj
                /\ MltLeaves([r EXCEPT !.c = [x \in DOMAIN @ \cup {"reloaded"} |->
                                                IF x = "reloaded" THEN FALSE ELSE @[x]]])
    /\ UNCHANGED AGN_LC_CACHE

\* One pass of the while loop of line 782.
WrapStep ==
    /\ Running
    /\ MltMustWrap(last)
    /\ last' = MltWrap(last)
    /\ UNCHANGED <<self, AGN_LC_CACHE, mltVars>>

\* The while loop is left: the light curve is interpolated and the next
\* one begun, up to the test of its while loop, or the call returns.
LeaveLoop ==
    /\ Running
    /\ ~MltMustWrap(last)
    /\ \E r \in {MltFinishLc(last, [MltGlobals EXCEPT !.reloaded = last.reloaded])} :
         MltLeaves(r)
    /\ UNCHANGED <<self, AGN_LC_CACHE>>

\* The user sets _mlt_lc_file by hand (the comment of lines 626-628).
SetMltLcFile ==
    /\ last = NoCall
    /\ self.class = "VariabilityStars"
    /\ \E f \in DOMAIN MltArchives :
         /\ f # self.mlt_lc_file
         /\ self' = [self EXCEPT !.mlt_lc_file = f]
    /\ UNCHANGED <<AGN_LC_CACHE, last, mltVars>>

\* sims_clean_up() closes the archive line 662 handed to it: its fid is
\* None from then on.
CloseArchive ==
    /\ last = NoCall
    /\ MLT_LC_NPZ # None
    /\ MLT_LC_NPZ[1].fid
    /\ MLT_LC_NPZ' = <<[MLT_LC_NPZ[1] EXCEPT !.fid = FALSE]>>
    /\ UNCHANGED <<self, AGN_LC_CACHE, last, MLT_LC_NPZ_NAME, MLT_LC_TIME_CACHE,
                   MLT_LC_FLUX_CACHE>>

NextMLT ==
    CallMLT \/ WrapStep \/ LeaveLoop \/ SetMltLcFile \/ CloseArchive \/ Continue

\* A catalog of stars.
InitMLT == Init /\ self.class = "VariabilityStars"

\* The calls of applyMLTflaring.  A loop that can make a pass makes it, and
\* a loop that is over is left: the interpreter does not stop inside a call.
SpecMLT ==
    InitMLT /\ [][NextMLT]_vars /\ WF_vars(WrapStep) /\ WF_vars(LeaveLoop)

(***************************************************************************)
(* What the properties read of a state.                                    *)
(***************************************************************************)
\* The caller holds what a call of applyVariability handed back.
Called == last.op = "applyVariability"

\* ... and the call returned its array.
Returned == Called /\ last.exc = ""

\* The parameter table the call handed to applyAgn.
AgnParams == last.params["applyAgn"]

\* t0_mjd of the object a record of applyAgn's log is about.
Toff(e) == AgnObject(AgnParams, e.ix).toff

\* The six offsets of the record are those applyAgn returns for the same
\* object at the same time, as a scalar, on an empty cache.
SameAsFresh(e) ==
    \E f \in {applyAgn(EmptyCache, <<e.ix>>, AgnParams, Scalar(e.t))} :
        /\ f.exc = ""
        /\ \A k \in 1..NBands : f.ret.data[<<k, e.ix>>] = e.dm[k]

\* The body the record is about found the cache over its limit and reset it.
Cleared(e) == e.exc = "" /\ Cardinality(e.keysBefore) > AgnCacheLimit

\* The model a blob names and the parameters it carries.
ModelOf(blob) == ParseBlob(blob).varCmd[ParseBlob(blob).meth_key]

ParsOf(blob) == ParseBlob(blob).varCmd[ParseBlob(blob).par_key]

\* The shape C1 states for a batch of n blobs and a time argument.
ShapeFor(n, expmjd) ==
    IF expmjd.k = "vector" THEN <<NBands, n, Len(expmjd.v)>> ELSE <<NBands, n>>

\* Every key of the registry was invoked once, with ([], {}, 0), and
\* nothing else was.
EachEvaluatorOnce ==
    /\ Len(last.invoked) = Cardinality(DOMAIN self.methodRegistry)
    /\ \A k \in DOMAIN self.methodRegistry :
         Cardinality({i \in 1..Len(last.invoked) : last.invoked[i].name = k}) = 1
    /\ \A i \in 1..Len(last.invoked) :
         /\ last.invoked[i].valid_dexes = <<>>
         /\ DOMAIN last.invoked[i].params = {}
         /\ last.invoked[i].expmjd = Scalar(0)

C2_ResumeEqualsFresh ==
    Called =>
        \A i \in 1..Len(last.agnlog) :
            (last.agnlog[i].resumed /\ last.agnlog[i].exc = "")
                => SameAsFresh(last.agnlog[i])

\* A scalar call resumed from an entry an earlier call left, later than
\* t0, and returned an offset that is not zero.
C2_Witness ==
    /\ Returned
    /\ last.expmjd.k = "scalar"
    /\ \E i \in 1..Len(last.agnlog) :
         /\ last.agnlog[i].resumed
         /\ RLess(Toff(last.agnlog[i]), last.agnlog[i].start)
         /\ last.agnlog[i].dm[1] # RZero

C4_CacheWithinLimit == Cardinality(DOMAIN AGN_LC_CACHE) <= AgnCacheLimit

C6_VectorEqualsScalar ==
    (Returned /\ last.expmjd.k = "vector") =>
        \A it \in 1..Len(last.expmjd.v) :
            \A s \in {applyVariability(self.class, self.methodRegistry, AGN_LC_CACHE,
                                       LcOf(self), last.varParams_arr, Scalar(last.expmjd.v[it]))} :
                /\ s.exc = ""
                /\ \A k \in 1..NBands, ix \in 1..Len(last.varParams_arr) :
                     s.ret.data[<<k, ix>>] = last.ret.data[<<k, ix, it>>]

(***************************************************************************)
(* C7                                                                      *)
(***************************************************************************)
\* C7: for two blobs i and j of one model, in either order, a parameter
\* name of blob i that blob j lacks is None in j's slot of the table, and
\* the demultiplexer raises nothing.
C7_MissingNameIsNone ==
    Called =>
        \A i, j \in 1..Len(last.varParams_arr) :
            LET bi == last.varParams_arr[i]
                bj == last.varParams_arr[j]
            IN  ( /\ i # j
                  /\ bi.text # "None" /\ bj.text # "None"
                  /\ ModelOf(bi) = ModelOf(bj) )
                    => \A p \in DOMAIN ParsOf(bi) \ DOMAIN ParsOf(bj) :
                         /\ last.demux_exc = ""
                         /\ last.params[ModelOf(bi)][p][j] = None

(***************************************************************************)
(* C8                                                                      *)
(***************************************************************************)
\* C8: if a blob of the batch names a model the registry has no evaluator
\* for, applyVariability raises and hands back no array.
C8_UnregisteredRaises ==
    Called =>
        ( (\E i \in 1..Len(last.varParams_arr) :
             /\ last.varParams_arr[i].text # "None"
             /\ ModelOf(last.varParams_arr[i]) \notin DOMAIN self.methodRegistry)
          => (last.exc # "" /\ last.ret = NoArray) )

\* A registered model was evaluated without error before the dispatch met
\* the name without evaluator.
C8_Witness ==
    /\ Called
    /\ last.exc = "RuntimeError"
    /\ last.ret = NoArray
    /\ Len(last.agnlog) > 0
    /\ \A i \in 1..Len(last.agnlog) : last.agnlog[i].exc = ""
    /\ \E i \in 1..Len(last.varParams_arr) :
         /\ last.varParams_arr[i].text # "None"
         /\ ModelOf(last.varParams_arr[i]) \notin DOMAIN self.methodRegistry

(***************************************************************************)
(* C9                                                                      *)
(***************************************************************************)
\* C9: the index of an object whose blob is None is in the valid indices
\* of no evaluator call, and its offset is zero in all six bands at every
\* time in the array returned; a batch of None alone returns, all zero.
C9_NoneIsZero ==
    Called =>
        /\ \A i \in 1..Len(last.varParams_arr) :
             last.varParams_arr[i].text = "None" =>
                 /\ \A c \in 1..Len(last.invoked) :
                      i \notin Range(last.invoked[c].valid_dexes)
                 /\ last.exc = "" =>
                      \A x \in DOMAIN last.ret.data :
                          x[2] = i => last.ret.data[x] = RZero
        /\ (\A i \in 1..Len(last.varParams_arr) : last.varParams_arr[i].text = "None")
             => /\ last.exc = ""
                /\ last.ret = Zeros(ShapeFor(Len(last.varParams_arr), last.expmjd))

\* A None beside an AGN whose offsets are not zero.
C9_Witness ==
    /\ Returned
    /\ \E i \in 1..Len(last.varParams_arr) :
         /\ last.varParams_arr[i].text = "None"
         /\ \E x \in DOMAIN last.ret.data : x[2] # i /\ last.ret.data[x] # RZero

EntryOf(cache, id) == IF id \in DOMAIN cache THEN <<cache[id]>> ELSE <<>>

\* The record is of an evaluation requested at a time before the t0 of
\* its object.
BeforeT0(e) == RLess(R(e.t), Toff(e))

\* C11: an evaluation of applyAgn requested at a time earlier than t0 of
\* its object raises, for a scalar and for a sequence of times; it is the
\* last the call made, the call raises the same error and returns no array,
\* and the cache holds for the identity what it held before the evaluation
\* (an entry that is the same, or none).
C11_EarlyTimeRaises ==
    Called =>
        \A i \in 1..Len(last.agnlog) :
            BeforeT0(last.agnlog[i]) =>
                /\ last.agnlog[i].exc \in {"RuntimeError", "TypeError"}
                /\ i = Len(last.agnlog)
                /\ last.exc = last.agnlog[i].exc
                /\ last.ret = NoArray
                /\ EntryOf(last.agnlog[i].after, last.agnlog[i].id)
                      = EntryOf(last.agnlog[i].before, last.agnlog[i].id)
                /\ EntryOf(AGN_LC_CACHE, last.agnlog[i].id)
                      = EntryOf(last.agnlog[i].before, last.agnlog[i].id)

\* A sequence of times whose second is before t0: the first evaluation
\* cached the process, the second raised and left the entry as it was.
C11_Witness ==
    /\ Called
    /\ last.expmjd.k = "vector"
    /\ \E i \in 1..Len(last.agnlog) :
         /\ BeforeT0(last.agnlog[i])
         /\ last.agnlog[i].hit
         /\ last.agnlog[i].id \in DOMAIN AGN_LC_CACHE
         /\ last.exc # ""


(***************************************************************************)
(* C12                                                                     *)
(***************************************************************************)
\* The blob names applyAgn and carries the parameters of a random walk.
IsAgnBlob(blob) ==
    /\ blob.text # "None"
    /\ ModelOf(blob) = "applyAgn"
    /\ \A n \in DOMAIN AgnParamNames : AgnParamNames[n] \in DOMAIN ParsOf(blob)

\* Seed, six structure functions, tau and t0 of the two blobs are the same.
SameWalk(b1, b2) ==
    \A n \in DOMAIN AgnParamNames :
        ParsOf(b1)[AgnParamNames[n]] = ParsOf(b2)[AgnParamNames[n]]

\* The offset of the returned array for band k and object ix at the it-th
\* time of the call.
OffsetAt(ret, expmjd, k, ix, it) ==
    IF expmjd.k = "vector" THEN ret.data[<<k, ix, it>>] ELSE ret.data[<<k, ix>>]

\* The times of a call: those of the sequence, or the scalar.
NTimes(expmjd) == IF expmjd.k = "vector" THEN Len(expmjd.v) ELSE 1

\* C12: when a call returns, two AGN of the batch with the same seed,
\* structure functions, tau and t0 were evaluated under one cache key and
\* got the same offsets at every time; and a separate call for such an
\* object alone, or in the second row behind a null blob, at the same time
\* argument returns those offsets too.
C12_SameWalkSameOffsets ==
    Returned =>
        \A ix \in 1..Len(last.varParams_arr) :
            IsAgnBlob(last.varParams_arr[ix]) =>
                /\ \A jx \in 1..Len(last.varParams_arr) :
                     ( /\ IsAgnBlob(last.varParams_arr[jx])
                       /\ SameWalk(last.varParams_arr[ix], last.varParams_arr[jx]) )
                       => /\ \A i, j \in 1..Len(last.agnlog) :
                               (last.agnlog[i].ix = ix /\ last.agnlog[j].ix = jx)
                                 => last.agnlog[i].id = last.agnlog[j].id
                          /\ \A k \in 1..NBands, it \in 1..NTimes(last.expmjd) :
                               OffsetAt(last.ret, last.expmjd, k, ix, it)
                                 = OffsetAt(last.ret, last.expmjd, k, jx, it)
                /\ \A batch \in {<<last.varParams_arr[ix]>>,
                                 <<NoneBlob, last.varParams_arr[ix]>>} :
                     \A s \in {applyVariability(self.class, self.methodRegistry,
                                                AGN_LC_CACHE, LcOf(self), batch,
                                                last.expmjd)} :
                        /\ s.exc = ""
                        /\ \A i \in 1..Len(s.agnlog) :
                             \E j \in 1..Len(last.agnlog) :
                                /\ last.agnlog[j].ix = ix
                                /\ last.agnlog[j].id = s.agnlog[i].id
                        /\ \A k \in 1..NBands, it \in 1..NTimes(last.expmjd) :
                             OffsetAt(s.ret, last.expmjd, k, Len(batch), it)
                               = OffsetAt(last.ret, last.expmjd, k, ix, it)


(***************************************************************************)
(* C13                                                                     *)
(***************************************************************************)
\* The record is the first of the log about its identity.
FirstOfIdentity(log, i) == \A j \in 1..(i - 1) : log[j].id # log[i].id

\* The evaluation of the record started as one of a new process does.
StartedAnew(e) ==
    /\ ~e.resumed
    /\ e.start = Toff(e)
    /\ e.rng0 = RandomState(AgnObject(AgnParams, e.ix).seed[1])
    /\ e.dx_0 = [k \in 1..NBands |-> RZero]

\* C13: right after reset_agn_lc_cache the AGN cache holds no identity, and
\* in the call that follows a reset the first evaluation of every identity
\* finds no entry and starts from t0, with a generator seeded with the seed
\* of the object and zero displacement in every band.
C13_ResetStartsAnew ==
    /\ last.op = "reset_agn_lc_cache" => AGN_LC_CACHE = EmptyCache
    /\ (Called /\ last.after = "reset_agn_lc_cache") =>
          \A i \in 1..Len(last.agnlog) :
              FirstOfIdentity(last.agnlog, i) =>
                  (~last.agnlog[i].hit /\ StartedAnew(last.agnlog[i]))

\* The call that followed a reset found the cache empty, evaluated an
\* identity later than t0 without error and cached it.
C13_Witness ==
    /\ Returned /\ last.after = "reset_agn_lc_cache"
    /\ \E i \in 1..Len(last.agnlog) :
         /\ last.agnlog[i].nbins > 0
         /\ last.agnlog[i].before = EmptyCache
         /\ last.agnlog[i].id \in DOMAIN AGN_LC_CACHE


(***************************************************************************)
(* C16                                                                     *)
(***************************************************************************)
\* The evaluation of the record completed and found an entry of its
\* identity in a cache it did not reset.
Rewrote(e) == e.exc = "" /\ e.hit /\ ~Cleared(e)

\* The end of the last bin the evaluation of the record simulated: the time
\* it started from and nbins steps of tau/100.
EndOfLastBin(e) ==
    RAdd(e.start, RMul(R(e.nbins), RDiv(AgnObject(AgnParams, e.ix).tau, R(100))))

StoredRng(cache) == [x \in DOMAIN cache |-> cache[x].rng]

\* C18: the draws of an evaluation leave every generator state of the cache
\* as it was, that of the resumed entry included; an evaluation that raises
\* leaves the cache as it found it; one that completes changes no stored
\* state but that of its own identity (or drops the others, when it resets
\* the cache); and nothing but the evaluations of a call changes the cache
\* during the call.
C18_DrawsLeaveCacheAlone ==
    Called =>
        /\ \A i \in 1..Len(last.agnlog) :
             \E e \in {last.agnlog[i]} :
                /\ StoredRng(e.drawnCache) = StoredRng(e.before)
                /\ (e.exc # "") => e.after = e.before
                /\ \A x \in DOMAIN e.after \ {e.id} :
                      x \in DOMAIN e.before /\ e.after[x] = e.before[x]
                /\ ~Cleared(e) => DOMAIN e.before \subseteq DOMAIN e.after
                /\ (i > 1) => e.before = last.agnlog[i - 1].after
        /\ (Len(last.agnlog) > 0) =>
              AGN_LC_CACHE = last.agnlog[Len(last.agnlog)].after

\* An evaluation resumed from an entry and drew numbers: the entry held its
\* generator state until the store at the end put the advanced one there.
C18_Witness ==
    /\ Returned
    /\ \E i \in 1..Len(last.agnlog) :
         \E e \in {last.agnlog[i]} :
            /\ e.resumed /\ e.nbins > 0
            /\ e.drawnCache[e.id].rng = e.before[e.id].rng
            /\ e.after[e.id].rng # e.before[e.id].rng


(***************************************************************************)
(* C19                                                                     *)
(***************************************************************************)
\* The registry a scan of the methods of the class builds.
RegistryOf(class) == BuildRegistry(ClassMethods(class), Len(ClassMethods(class)))

\* C19: an instance has no registry before its first call of
\* applyVariability; from that call on, whether calls return or raise, the
\* registry is the one a scan of the class builds and the methods have been
\* scanned once.
C19_RegistryBuiltOnce ==
    /\ ~self.hasMethodRegistry =>
          (self.registryScans = 0 /\ ~Called /\ DOMAIN self.methodRegistry = {})
    /\ Called => self.hasMethodRegistry
    /\ self.hasMethodRegistry =>
          (self.registryScans = 1 /\ self.methodRegistry = RegistryOf(self.class))

\* A call that raised, made after an earlier call had left an AGN in the
\* cache: the registry is that of the first call.
C19_Witness ==
    /\ Called /\ last.exc # ""
    /\ Len(last.agnlog) > 0 /\ last.agnlog[1].before # EmptyCache
    /\ self.registryScans = 1
    /\ DOMAIN self.methodRegistry # {}


(***************************************************************************)
(* C20                                                                     *)
(***************************************************************************)
\* C20: in the table the loop over the N blobs of a call built, every
\* sequence of every model has N slots; the slot of an object whose blob
\* names another model, or none, is None, and the slot of an object the
\* loop read a value of the parameter for holds that value.
C20_SequencesOfBatchLength ==
    Called =>
        \A name \in DOMAIN last.params :
            \A p \in DOMAIN last.params[name] :
                /\ Len(last.params[name][p]) = Len(last.varParams_arr)
                /\ \A i \in 1..Len(last.varParams_arr) :
                     /\ ModelOf(last.varParams_arr[i]) # name
                           => last.params[name][p][i] = None
                     /\ last.params[name][p][i] # None
                           => /\ p \in DOMAIN ParsOf(last.varParams_arr[i])
                              /\ last.params[name][p][i]
                                    = <<ParsOf(last.varParams_arr[i])[p]>>
                     /\ ( /\ last.demux_exc = ""
                          /\ ModelOf(last.varParams_arr[i]) = name
                          /\ p \in DOMAIN ParsOf(last.varParams_arr[i]) )
                           => last.params[name][p][i] # None

\* Two blobs, the one with None in a sequence not null itself: the sequence
\* has the value of the other blob in that blob's slot.
C20_Witness ==
    /\ Called /\ last.demux_exc = ""
    /\ Len(last.varParams_arr) = 2
    /\ \E name \in DOMAIN last.params :
         \E p \in DOMAIN last.params[name] :
            \E i, j \in 1..2 :
               /\ last.params[name][p][i] = None
               /\ last.params[name][p][j] # None
               /\ last.varParams_arr[i].text # "None"


(***************************************************************************)
(* C14                                                                     *)
(***************************************************************************)
\* The record is of an object applyEb had evaluated, and the value
\* applyStdPeriodic gave for it in some band at some time is negative.
NegativeFluxRatio(e) ==
    /\ e.by = "applyEb"
    /\ \E k \in 1..NBands : \E i \in 1..Len(e.values[k]) :
          e.values[k][i] # NaN /\ e.values[k][i][1] < 0

\* C14: if applyStdPeriodic gave applyEb a negative flux ratio for a band,
\* an object and a time of the call, the call raises RuntimeError and hands
\* back no array.
C14_NegativeFluxRaises ==
    Called =>
        ( (\E j \in 1..Len(last.stdlog) : NegativeFluxRatio(last.stdlog[j]))
          => (last.exc = "RuntimeError" /\ last.ret = NoArray) )

(***************************************************************************)
(* C15                                                                     *)
(***************************************************************************)
\* C15: for every object applyStdPeriodic evaluates with a t0 that is a
\* number and a positive period, the phase it computes for every time of
\* the call is at least 0 and less than 1.
C15_PhaseInUnitInterval ==
    Called =>
        \A j \in 1..Len(last.stdlog) :
            \E e \in {last.stdlog[j]} :
                (e.toff # NaN /\ RLess(RZero, e.period)) =>
                    \A i \in 1..Len(e.phase) :
                        /\ e.phase[i] # NaN
                        /\ ~RLess(e.phase[i], RZero)
                        /\ RLess(e.phase[i], R(1))


(***************************************************************************)
(* C17                                                                     *)
(***************************************************************************)
\* The calls of the dispatch that had the index ix among their valid_dexes.
InvocationsOf(ix) ==
    {i \in 1..Len(last.invoked) : ix \in Range(last.invoked[i].valid_dexes)}

\* C17: in every call of applyVariability with a batch, an object index is
\* among the valid_dexes of at most one evaluator call, one made under the
\* model name of its blob, which the registry has; the index of a null blob
\* is in none.  When the call returns, the index of every blob that is not
\* null was passed to exactly one evaluator, and the column of the object
\* in the array returned is, in every band and at every time, the column
\* that evaluator returned for it (zero for a null blob), whatever other
\* models the batch holds.
C17_EachIndexToItsEvaluator ==
    Called =>
        \A ix \in 1..Len(last.varParams_arr) :
            \E name \in {ModelOf(last.varParams_arr[ix])} :
                /\ Cardinality(InvocationsOf(ix)) <= 1
                /\ \A i \in InvocationsOf(ix) :
                      /\ last.invoked[i].name = name
                      /\ name \in DOMAIN self.methodRegistry
                      /\ name # "None"
                /\ Returned =>
                      /\ (name # "None") => Cardinality(InvocationsOf(ix)) = 1
                      /\ \A k \in 1..NBands, it \in 1..NTimes(last.expmjd) :
                            OffsetAt(last.ret, last.expmjd, k, ix, it) =
                               IF name = "None" THEN RZero
                               ELSE OffsetAt(
                                      last.invoked[CHOOSE i \in InvocationsOf(ix) : TRUE].ret,
                                      last.expmjd, k, ix, it)

\* A batch of two models returned, each object with an offset that is not
\* zero in the column of its own evaluator.
C17_Witness ==
    /\ Returned
    /\ Len(last.varParams_arr) = 2
    /\ Len(last.invoked) = 2
    /\ last.invoked[1].name # last.invoked[2].name
    /\ \A ix \in 1..2 :
          /\ Cardinality(InvocationsOf(ix)) = 1
          /\ \E k \in 1..NBands :
                OffsetAt(last.ret, last.expmjd, k, ix, 1) # RZero


(***************************************************************************)
(* C21                                                                     *)
(***************************************************************************)
\* The four ways of spelling the two keys of a blob.
Spellings == {<<mk, pk>> : mk \in {"varMethodName", "m"}, pk \in {"pars", "p"}}

\* The JSON text of the same method name and the same parameter dict under
\* the spelling sp; the text 'None' has no keys to spell.
Respelled(blob, sp) ==
    IF blob.text = "None" THEN blob
    ELSE JsonBlob(
           [k \in {sp[1], sp[2]} |->
              IF k = sp[1]
              THEN IF "varMethodName" \in DOMAIN blob.json
                   THEN blob.json.varMethodName ELSE blob.json.m
              ELSE IF "pars" \in DOMAIN blob.json
                   THEN blob.json.pars ELSE blob.json.p])

\* C21: whatever batch applyVariability was called with, the same batch with
\* every blob written under any of the four spellings of its keys, chosen
\* blob by blob, is parsed to the same outcome: the same error of the
\* demultiplexer or the same method_name_arr and the same params.
C21_SpellingsAgree ==
    Called =>
        \A sp \in [1..Len(last.varParams_arr) -> Spellings] :
            \E dm \in {Demux([ix \in 1..Len(last.varParams_arr) |->
                                 Respelled(last.varParams_arr[ix], sp[ix])],
                             Len(last.varParams_arr))} :
                /\ dm.exc = last.demux_exc
                /\ dm.exc = "" =>
                      /\ dm.method_name_arr = last.method_name_arr
                      /\ dm.params = last.params

\* A batch of two blobs of the same model under different spellings of both
\* keys was parsed.
C21_Witness ==
    /\ Called
    /\ last.demux_exc = ""
    /\ Len(last.varParams_arr) = 2
    /\ last.method_name_arr[1] = last.method_name_arr[2]
    /\ last.method_name_arr[1] # "None"
    /\ "m" \in DOMAIN last.varParams_arr[1].json
    /\ "p" \in DOMAIN last.varParams_arr[1].json
    /\ "varMethodName" \in DOMAIN last.varParams_arr[2].json
    /\ "pars" \in DOMAIN last.varParams_arr[2].json
    /\ last.params[last.method_name_arr[1]].seed[1] # None
    /\ last.params[last.method_name_arr[1]].seed[2] # None


(***************************************************************************)
(* C27                                                                     *)
(***************************************************************************)
\* The record is of an evaluation at exactly t0 of an object whose process
\* the cache did not hold.
AtT0Uncached(e) == ~e.hit /\ R(e.t) = Toff(e)

\* C27: an evaluation of applyAgn at exactly t0 of an object whose process
\* is not cached raises nothing and yields the offset zero in every band.
C27_StartTimeIsZero ==
    Called =>
        \A i \in 1..Len(last.agnlog) :
            AtT0Uncached(last.agnlog[i]) =>
                /\ last.agnlog[i].exc = ""
                /\ \A k \in 1..NBands : last.agnlog[i].dm[k] = RZero


(***************************************************************************)
(* C26                                                                     *)
(***************************************************************************)
\* C26: whatever calls and resets came before, the offsets an evaluation
\* of applyAgn returns for an object at a time t at or after its t0 are, in
\* every band, those of one evaluation at t of the same object alone on an
\* empty cache, which returns.
C26_HistoryIndependent ==
    Called =>
        \A i \in 1..Len(last.agnlog) :
            (~BeforeT0(last.agnlog[i]) /\ last.agnlog[i].exc = "")
                => SameAsFresh(last.agnlog[i])


(***************************************************************************)
(* C25                                                                     *)
(***************************************************************************)
\* The flux ratio applyStdPeriodic handed to the evaluator `by` at the
\* element x of its array: the value of the spline for an object it
\* evaluated, the zero the array started with for any other.
FluxAt(by, x) ==
    IF \E j \in 1..Len(last.stdlog) : last.stdlog[j].by = by /\ last.stdlog[j].ix = x[2]
    THEN last.stdlog[CHOOSE j \in 1..Len(last.stdlog) :
                        last.stdlog[j].by = by /\ last.stdlog[j].ix = x[2]]
             .values[x[1]][IF Len(x) = 3 THEN x[3] ELSE 1]
    ELSE RZero

\* The number is neither NaN nor infinite.
Finite(q) == q[2] # 0

\* C25: every element of an array applyEb returns is a finite number; it is
\* 0 where the flux ratio is zero, and -2.5*log10 of the flux ratio where
\* that is positive.
C25_EbOffsetsFinite ==
    Called =>
        \A i \in 1..Len(last.invoked) :
            (last.invoked[i].name = "applyEb" /\ last.invoked[i].ret # NoArray) =>
                \A x \in DOMAIN last.invoked[i].ret.data :
                    \E flux \in {FluxAt("applyEb", x)},
                       dmag \in {last.invoked[i].ret.data[x]} :
                        /\ Finite(dmag)
                        /\ (flux # NaN /\ flux[1] = 0) => dmag = RZero
                        /\ (flux # NaN /\ flux[1] > 0) =>
                               dmag = RMul(<<-5, 2>>, R(Log10(flux)))

\* applyEb returned for one of its own objects the offset 0 in a band whose
\* flux ratio was zero and an offset that is not 0 in a band whose flux
\* ratio was positive.
C25_Witness ==
    /\ Returned
    /\ \E i \in 1..Len(last.invoked) :
         /\ last.invoked[i].name = "applyEb"
         /\ last.invoked[i].ret # NoArray
         /\ \E x, y \in DOMAIN last.invoked[i].ret.data :
              /\ x[2] \in Range(last.invoked[i].valid_dexes)
              /\ FluxAt("applyEb", x) = RZero
              /\ last.invoked[i].ret.data[x] = RZero
              /\ y[2] = x[2]
              /\ FluxAt("applyEb", y) # NaN
              /\ FluxAt("applyEb", y)[1] > 0
              /\ last.invoked[i].ret.data[y] # RZero


(***************************************************************************)
(* C22                                                                     *)
(***************************************************************************)
\* What a call of applyVariability does to self.variabilityLcCache: every
\* entry it found is still there and is the same; with caching enabled
\* every file an evaluation of the call used has an entry; with caching
\* disabled there is no entry at all.
LcCacheKept ==
    last'.op = "applyVariability" =>
        /\ \A f \in DOMAIN self.variabilityLcCache :
              /\ f \in DOMAIN self'.variabilityLcCache
              /\ self'.variabilityLcCache[f] = self.variabilityLcCache[f]
        /\ self'.variabilityCache =>
              \A j \in 1..Len(last'.stdlog) :
                  last'.stdlog[j].filename \in DOMAIN self'.variabilityLcCache
        /\ ~self'.variabilityCache =>
              DOMAIN self'.variabilityLcCache = {}

\* C22: with caching enabled the entry of a file in the light-curve cache
\* is there from the first evaluation that uses the file on, and no call of
\* applyVariability replaces or removes an entry; with caching disabled by
\* initializeVariability(doCache=False) the cache is empty after every call.
C22_LcCacheEntriesStay == [][LcCacheKept]_vars

\* With caching enabled, a call evaluated an object from the entry an
\* earlier call had left for its file, and the entry is as it was.
C22_Witness ==
    /\ Called
    /\ self.variabilityCache
    /\ \E j \in 1..Len(last.stdlog) :
         /\ last.stdlog[j].cached
         /\ last.stdlog[j].filename \in DOMAIN last.lc0.files
         /\ last.stdlog[j].filename \in DOMAIN self.variabilityLcCache
         /\ self.variabilityLcCache[last.stdlog[j].filename]
               = last.lc0.files[last.stdlog[j].filename]


(***************************************************************************)
(* C28                                                                     *)
(***************************************************************************)
\* The same call on the same object with caching disabled: no entry is
\* found and none is kept.
Uncached ==
    applyVariability(self.class, self.methodRegistry, last.cache0,
                     [on |-> FALSE, files |-> [f \in {} |-> 0]],
                     last.varParams_arr, last.expmjd)

\* C28: with caching enabled, a call of applyVariability raises what the
\* same call raises with caching disabled, or returns the same offsets for
\* every object, whatever the earlier evaluations left in the light-curve
\* cache.
C28_CachedEqualsUncached ==
    (Called /\ last.lc0.on) =>
        \E u \in {Uncached} : u.exc = last.exc /\ u.ret = last.ret


(***************************************************************************)
(* C29                                                                     *)
(***************************************************************************)
\* The call of applyMLTflaring the caller made has ended.
MltDone == last.op = "applyMLTflaring" /\ last.pc = "done"

\* A record of the log of loops left: every time is at most the last time
\* of the light curve, and a time that was wrapped is less than one
\* duration before it.
WrappedInRange(e) ==
    \A x \in DOMAIN e.wrapped :
        /\ ~RLess(e.tmax, e.wrapped[x])
        /\ e.wrapped[x] # e.asked[x] => RLess(RSub(e.tmax, e.dt), e.wrapped[x])

\* C29: a call of applyMLTflaring that is at the while loop of the time
\* wrap comes to its end, whatever times are asked for and whatever light
\* curve with at least one sample is read; and every loop left leaves the
\* times at most the last time of the light curve, a wrapped one within one
\* duration of it.
C29_WrapLoopTerminates ==
    /\ [](last.op = "applyMLTflaring" =>
             \A i \in 1..Len(last.wraplog) : WrappedInRange(last.wraplog[i]))
    /\ (Running ~> MltDone)



(***************************************************************************)
(* C23                                                                     *)
(***************************************************************************)
\* The caller holds the array the evaluator registered as name returned.
EvaluatorReturned(name) ==
    last.op = "evaluator" /\ last.name = name /\ last.exc = ""

\* does_burst of the object of column ix of the call the caller made.
DoesBurst(ix) == AsFloat(last.params["does_burst"][ix]) = R(1)

\* C23: in an array applyAmcvn returned, an element of an object flagged
\* as bursting at a time where no burst pulse contributes is the baseline
\* sinusoid alone, in every band: no colour excess is added to it.
C23_ExcessOnlyInBursts ==
    EvaluatorReturned("applyAmcvn") =>
        \A x \in DOMAIN last.ret.data :
            (/\ x[2] \in Range(last.valid_dexes)
             /\ DoesBurst(x[2])
             /\ last.ret.data[x].pulses = {})
                => last.ret.data[x].excess = RZero

\* The same of the elements a pulse contributes to: there the excess of
\* the band is added.
C23_ExcessInBursts ==
    EvaluatorReturned("applyAmcvn") =>
        \A x \in DOMAIN last.ret.data :
            (/\ x[2] \in Range(last.valid_dexes)
             /\ DoesBurst(x[2])
             /\ last.ret.data[x].pulses # {})
                => last.ret.data[x].excess =
                       BandExcess(x[1], AsFloat(last.params["color_excess_during_burst"][x[2]]))

\* A bursting object was evaluated at a time a pulse contributes to.
C23_InBurstReached ==
    /\ EvaluatorReturned("applyAmcvn")
    /\ \E x \in DOMAIN last.ret.data :
          /\ x[2] \in Range(last.valid_dexes)
          /\ DoesBurst(x[2])
          /\ last.ret.data[x].pulses # {}



(***************************************************************************)
(* C30                                                                     *)
(***************************************************************************)
\* The caller holds the array an evaluator returned.
AnEvaluatorReturned == last.op = "evaluator" /\ last.exc = ""

\* The elements of the array of the objects outside valid_dexes.
OutsideValidDexes ==
    {x \in DOMAIN last.ret.data : x[2] \notin Range(last.valid_dexes)}

\* C30: in the array an evaluator (periodic, eclipsing binary,
\* microlensing, AM CVn, black-hole microlensing, AGN) returned, every
\* element of an object outside its valid_dexes is the number zero, in all
\* bands and at all times.
C30_ZeroOutsideValidDexes ==
    AnEvaluatorReturned =>
        \A x \in OutsideValidDexes : last.ret.data[x] = RZero

\* An evaluator returned an array with elements of objects of its own,
\* one of them not zero, and elements of objects of another model.
C30_Witness ==
    /\ AnEvaluatorReturned
    /\ OutsideValidDexes # {}
    /\ \E x \in DOMAIN last.ret.data :
          x[2] \in Range(last.valid_dexes) /\ last.ret.data[x] # RZero



(***************************************************************************)
(* C24                                                                     *)
(***************************************************************************)
\* The call of applyMLTflaring the caller made loaded the archive and
\* emptied both caches.
MltReloaded == last.op = "applyMLTflaring" /\ last.reloaded

\* When the call began no archive was loaded.
NothingLoaded == last.g0.npz = None

\* When the call began the name recorded as loaded was not the configured
\* _mlt_lc_file.
PathDiffers == last.g0.name # <<last.file>>

\* When the call began the archive loaded had been closed.
ArchiveClosed == last.g0.npz # None /\ ~last.g0.npz[1].fid

\* Every grid of the two caches is the grid of its name in the archive
\* recorded as loaded.
CachesOfRecordedArchive ==
    /\ MLT_LC_NPZ_NAME = None =>
          DOMAIN MLT_LC_TIME_CACHE = {} /\ DOMAIN MLT_LC_FLUX_CACHE = {}
    /\ MLT_LC_NPZ_NAME # None =>
          /\ \A n \in DOMAIN MLT_LC_TIME_CACHE :
                MLT_LC_TIME_CACHE[n] = MltArchives[MLT_LC_NPZ_NAME[1]].time[n]
          /\ \A n \in DOMAIN MLT_LC_FLUX_CACHE :
                MLT_LC_FLUX_CACHE[n] = MltArchives[MLT_LC_NPZ_NAME[1]].flux[n[1]]

\* C24 as stated: a call of applyMLTflaring reloads the archive and empties
\* the caches only when nothing was loaded or the configured path differs
\* from the one recorded as loaded, and the caches hold grids of the
\* archive recorded as loaded only.
C24_ReloadOnlyOnPathChange ==
    /\ MltReloaded => (NothingLoaded \/ PathDiffers)
    /\ CachesOfRecordedArchive

\* C24 amended: a call of applyMLTflaring reloads the archive and empties
\* the caches only when nothing was loaded, the configured path differs
\* from the one recorded as loaded, or the archive loaded has been closed;
\* and the caches hold grids of the archive recorded as loaded only.
C24_ReloadOnPathChangeOrClosed ==
    /\ MltReloaded => (NothingLoaded \/ PathDiffers \/ ArchiveClosed)
    /\ CachesOfRecordedArchive

\* A call found grids of another archive in both caches, reloaded for the
\* path, and has cached grids of the archive it loaded.
C24_Witness ==
    /\ MltReloaded
    /\ ~NothingLoaded /\ PathDiffers
    /\ DOMAIN last.g0.tc # {} /\ DOMAIN last.g0.fc # {}
    /\ DOMAIN MLT_LC_TIME_CACHE # {} /\ DOMAIN MLT_LC_FLUX_CACHE # {}

\* A call found the archive of the configured path closed and reloaded it.
C24_ClosedReloadReached ==
    MltReloaded /\ ArchiveClosed /\ ~PathDiffers /\ DOMAIN last.g0.tc # {}

=============================================================================
